---------------------------- MODULE Spec2Model ----------------------------
(* CodeBeep: command dispatch and session orchestration.                    *)
(*   bot.py             CodeBeepBot: registry, get_or_create_session,       *)
(*                      is_user_allowed, handle_message, _send_result       *)
(*   commands.py        the eight Command variants and ALL_COMMANDS         *)
(*   opencode_client.py OpenCodeClient: the control-plane calls             *)
(*                                                                          *)
(* Text is a sequence of units.  A unit typed by a user, or belonging to a  *)
(* session id, is one character; a literal fragment of the source (the text *)
(* between two interpolations of an f-string) is carried as one unit.       *)
(* An optional value (Python's None or a value) is a sequence of length     *)
(* zero or one.                                                             *)
(*                                                                          *)
(* A coroutine runs from one await to the next without interruption.  Each  *)
(* action below is one such stretch: a call the task was suspended on       *)
(* returns or raises, and the code runs on to the next call it awaits.      *)
EXTENDS Integers, Sequences, FiniteSets, TLC

VARIABLES
    config,          \* Config: the fields of BotConfig and MatrixConfig the bot reads
    active_session,  \* CodeBeepBot.active_session (optional Session)
    current_model,   \* CodeBeepBot.current_model (optional text)
    sessions,        \* control-plane: the sessions the server holds, in creation order
    created,         \* control-plane: number of session ids the server has assigned
    handler,         \* per task: where its coroutine is suspended, its locals,
                     \* and the calls it has issued since it was entered
    hist,            \* what the previous call of get_or_create_session made by
                     \* a caller outside the dispatcher left (optional)
    client,          \* OpenCodeClient: its connection handle, the handles it has
                     \* opened, and the event stream it is reading
    boot             \* run_bot: how far start() and stop() have come, and the
                     \* event monitor task

vars ==
    <<config, active_session, current_model, sessions, created, handler, hist,
      client, boot>>

(* ------------------------------ bounds ------------------------------- *)

\* Session ids the server can assign before createSession starts failing.
MaxSessions == 2
\* Longest text handed to result delivery under SpecDeliver.
MaxText == 5
\* Largest max_message_length tried under SpecDeliver.
MaxChunk == 3

(* ------------------------- program constants ------------------------- *)

\* BotConfig.max_message_length default
DefaultMaxMessageLength == 4000
\* session.id[:8] in the command results
IdShown == 8
\* sessions[:10] in SessionsCommand
ListLimit == 10

(* -------------------------------- text -------------------------------- *)

None == <<>>
Some(x) == <<x>>

Min(a, b) == IF a < b THEN a ELSE b

UpperCase ==
    <<"A","B","C","D","E","F","G","H","I","J","K","L","M",
      "N","O","P","Q","R","S","T","U","V","W","X","Y","Z">>
LowerCase ==
    <<"a","b","c","d","e","f","g","h","i","j","k","l","m",
      "n","o","p","q","r","s","t","u","v","w","x","y","z">>

\* str.lower() on one character
LowerChar(c) ==
    IF \E i \in 1..26 : UpperCase[i] = c
    THEN LowerCase[CHOOSE i \in 1..26 : UpperCase[i] = c]
    ELSE c

\* str.lower()
Lower(s) == [i \in 1..Len(s) |-> LowerChar(s[i])]

\* the characters str.split() and str.strip() treat as whitespace
IsSpace(c) == c \in {" ", "\t", "\n"}

RECURSIVE LStrip(_)
LStrip(s) ==
    IF s # <<>> /\ IsSpace(Head(s)) THEN LStrip(Tail(s)) ELSE s

RECURSIVE RStrip(_)
RStrip(s) ==
    IF s # <<>> /\ IsSpace(s[Len(s)]) THEN RStrip(SubSeq(s, 1, Len(s) - 1)) ELSE s

\* str.strip()
Strip(s) == RStrip(LStrip(s))

\* str.startswith(p)
StartsWith(s, p) == Len(p) <= Len(s) /\ SubSeq(s, 1, Len(p)) = p

\* s[n:]
DropFirst(s, n) == SubSeq(s, n + 1, Len(s))

\* s[:n]
Take(s, n) == SubSeq(s, 1, Min(n, Len(s)))

\* position of the first whitespace of s, Len(s) + 1 when it has none
FirstSpace(s) ==
    IF \E i \in 1..Len(s) : IsSpace(s[i])
    THEN CHOOSE i \in 1..Len(s) : IsSpace(s[i]) /\ \A j \in 1..(i - 1) : ~IsSpace(s[j])
    ELSE Len(s) + 1

\* str.split(maxsplit=1): leading whitespace is dropped, the first word ends at
\* the first whitespace, the run of whitespace after it is dropped, and the
\* rest (trailing whitespace kept) is the second part when it is not empty
SplitOnce(s) ==
    LET t == LStrip(s)
        k == FirstSpace(t)
        rest == LStrip(DropFirst(t, k - 1))
    IN  IF t = <<>> THEN <<>>
        ELSE IF rest = <<>> THEN <<SubSeq(t, 1, k - 1)>>
        ELSE <<SubSeq(t, 1, k - 1), rest>>

\* sub in s
Contains(s, sub) ==
    \E i \in 0..(Len(s) - Len(sub)) : SubSeq(s, i + 1, i + Len(sub)) = sub

RECURSIVE Concat(_)
Concat(parts) ==
    IF parts = <<>> THEN <<>> ELSE Head(parts) \o Concat(Tail(parts))

\* "\n".join(lines)
RECURSIVE JoinLines(_)
JoinLines(lines) ==
    IF lines = <<>> THEN <<>>
    ELSE IF Len(lines) = 1 THEN lines[1]
    ELSE lines[1] \o <<"\n">> \o JoinLines(Tail(lines))


(* ------------------------------ commands ------------------------------ *)

S_build == <<"b","u","i","l","d">>
S_plan == <<"p","l","a","n">>
S_status == <<"s","t","a","t","u","s">>
S_sessions == <<"s","e","s","s","i","o","n","s">>
S_abort == <<"a","b","o","r","t">>
S_model == <<"m","o","d","e","l">>
S_help == <<"h","e","l","p">>
S_agents == <<"a","g","e","n","t","s">>

\* The classes of commands.py in the order of ALL_COMMANDS; a command is
\* identified by its position, and the registry instantiates each class once.
ALL_COMMANDS == <<
    [name |-> S_build, description |-> <<"Execute a coding task with full access to modify files">>,
     usage |-> <<"/build <task description>">>,
     aliases |-> << <<"b">>, <<"d","o">>, <<"c","o","d","e">> >>],
    [name |-> S_plan, description |-> <<"Analyze code and plan changes without modifying files">>,
     usage |-> <<"/plan <analysis request>">>,
     aliases |-> << <<"p">>, <<"a","n","a","l","y","z","e">>, <<"r","e","v","i","e","w">> >>],
    [name |-> S_status, description |-> <<"Check the status of current tasks">>,
     usage |-> <<"/status">>,
     aliases |-> << <<"s">>, <<"s","t">> >>],
    [name |-> S_sessions, description |-> <<"List all OpenCode sessions">>,
     usage |-> <<"/sessions">>,
     aliases |-> << <<"l","s">>, <<"l","i","s","t">> >>],
    [name |-> S_abort, description |-> <<"Stop the current running task">>,
     usage |-> <<"/abort [session_id]">>,
     aliases |-> << <<"s","t","o","p">>, <<"c","a","n","c","e","l">> >>],
    [name |-> S_model, description |-> <<"Switch the AI model">>,
     usage |-> <<"/model <model_name>">>,
     aliases |-> << <<"m">> >>],
    [name |-> S_help, description |-> <<"Show available commands">>,
     usage |-> <<"/help [command]">>,
     aliases |-> << <<"h">>, <<"?">> >>],
    [name |-> S_agents, description |-> <<"List available OpenCode agents">>,
     usage |-> <<"/agents">>,
     aliases |-> << <<"a">> >>]
>>

BUILD == 1
PLAN == 2
STATUS == 3
SESSIONS == 4
ABORT == 5
MODEL == 6
HELP == 7
AGENTS == 8

\* A dict is a sequence of [key, cmd] entries in insertion order.
\* d[k] = v: a key already present keeps its place and takes the new value.
DictPut(d, k, v) ==
    IF \E i \in 1..Len(d) : d[i].key = k
    THEN [i \in 1..Len(d) |-> IF d[i].key = k THEN [key |-> k, cmd |-> v] ELSE d[i]]
    ELSE Append(d, [key |-> k, cmd |-> v])

\* d.get(k): the command under k, None when there is none
DictGet(d, k) ==
    IF \E i \in 1..Len(d) : d[i].key = k
    THEN Some(d[CHOOSE i \in 1..Len(d) : d[i].key = k].cmd)
    ELSE None

RECURSIVE PutAliases(_, _, _)
PutAliases(d, aliases, c) ==
    IF aliases = <<>> THEN d
    ELSE PutAliases(DictPut(d, Head(aliases), c), Tail(aliases), c)

\* the registration loop with the alias loop left out
RegisterNameOnly(d, c) == DictPut(d, ALL_COMMANDS[c].name, c)

\* one turn of the registration loop: the name, then each alias
Register(d, c) ==
    PutAliases(DictPut(d, ALL_COMMANDS[c].name, c), ALL_COMMANDS[c].aliases, c)

RECURSIVE RegisterFrom(_, _)
RegisterFrom(d, c) ==
    IF c > Len(ALL_COMMANDS) THEN d ELSE RegisterFrom(Register(d, c), c + 1)

\* CodeBeepBot.commands after __init__
Commands == RegisterFrom(<<>>, 1)

(* --------------------------- control-plane --------------------------- *)

Digits == <<"1","2","3","4","5","6","7","8","9">>

\* The id the server assigns to the n-th session it creates: opaque and unique;
\* odd ones are longer than the eight characters a result shows, even ones shorter.
SessionId(n) ==
    IF n % 2 = 1
    THEN <<"s","e","s","_","0","0","0","0","0", Digits[n]>>
    ELSE <<"s", Digits[n]>>

SESSION_TITLE == <<"codebeep mobile session">>

\* An outbound call, as the collaborator sees it.  op names the operation;
\* room and on are the chat transport's arguments, sid, agent and model the
\* control-plane's, text the content or message text; ret is "pending" while
\* the caller is suspended on it, then "ok" or "raised".
CpCall(op, sid, text, agent) ==
    [op |-> op, room |-> "", sid |-> sid, text |-> text, agent |-> agent,
     model |-> None, on |-> FALSE, ret |-> "pending"]

ChatCall(op, room, text, on) ==
    [op |-> op, room |-> room, sid |-> <<>>, text |-> text, agent |-> "",
     model |-> None, on |-> on, ret |-> "pending"]

ControlPlaneOps ==
    {"getSession", "createSession", "sendMessageAsync", "getSessionStatus",
     "listSessions", "abortSession", "listAgents"}

ChatOps == {"send_text_message", "send_markdown_message", "room_typing"}

\* str(e) of the exception a failed call raises
ErrText(op) == <<"HTTPError ", op>>

HasSession(ss, sid) == \E i \in 1..Len(ss) : ss[i].id = sid

\* the session the server holds under sid
SessionOf(ss, sid) == ss[CHOOSE i \in 1..Len(ss) : ss[i].id = sid]

\* the server's sessions without the i-th
Without(ss, i) ==
    [k \in 1..(Len(ss) - 1) |-> IF k < i THEN ss[k] ELSE ss[k + 1]]

(* ------------------------------ the tasks ----------------------------- *)

\* A task that is not running anything.
IdleTask ==
    [pc |-> "idle", kind |-> "none", room |-> "", event |-> <<>>, stop |-> "",
     cmd |-> None, args |-> <<>>, session |-> None, sid |-> <<>>, statuses |-> None,
     parts |-> <<>>, result |-> None, ret |-> None, exc |-> None, calls |-> <<>>,
     pre_active |-> None, pre_model |-> None, title |-> None, deleted |-> None,
     cmd_name |-> <<>>]

\* the task is suspended on call c, at label pc
Await(tk, pc, c) == [tk EXCEPT !.pc = pc, !.calls = Append(@, c)]

\* the call the task was suspended on has returned (ret = "ok") or raised
Settle(tk, ret) == [tk EXCEPT !.calls[Len(tk.calls)].ret = ret]

(* ------------------------- Command results ---------------------------- *)

\* CommandResult(success, message, data); data is the session id when given
CommandResult(success, message, data) ==
    [success |-> success, message |-> message, data |-> data]

\* "if not args": the check without the strip
BlankUnstripped(args) == args = <<>>

\* "if not args.strip()"
Blank(args) == Strip(args) = <<>>

USAGE_BUILD == <<"Please provide a task description.\n", "Usage: ", "/build <task>">>
USAGE_PLAN == <<"Please provide an analysis request.\n", "Usage: ", "/plan <request>">>

\* the result of a build or plan command with blank arguments
UsageResult(c) == CommandResult(FALSE, IF c = BUILD THEN USAGE_BUILD ELSE USAGE_PLAN, None)

\* every task sent with agent "build", plan's included
AgentAlwaysBuild(c) == "build"

\* the agent a build or plan command sends with
AgentOf(c) == IF c = BUILD THEN "build" ELSE "plan"

\* the result of a build or plan command whose send was accepted
StartedResult(c, sid) ==
    CommandResult(TRUE,
        <<IF c = BUILD THEN "Task started with build agent.\nSession: "
                       ELSE "Analysis started with plan agent.\nSession: ">>
            \o Take(sid, IdShown) \o <<"...\n\nI'll notify you when it's complete.">>,
        Some(sid))

\* the text each command puts before the error in its except clause
FailPrefix(c) ==
    CASE c = BUILD -> "Failed to start task: "
      [] c = PLAN -> "Failed to start analysis: "
      [] c = STATUS -> "Failed to get status: "
      [] c = SESSIONS -> "Failed to list sessions: "
      [] c = ABORT -> "Failed to abort: "
      [] c = AGENTS -> "Failed to list agents: "

\* except Exception as e: return CommandResult(success=False, message=f"...: {e}")
FailedResult(c, err) == CommandResult(FALSE, <<FailPrefix(c)>> \o err, None)

\* the emoji of a status, the fallback for any other value
Glyph(status) ==
    CASE status = "idle" -> "idle-glyph"
      [] status = "running" -> "running-glyph"
      [] status = "waiting" -> "waiting-glyph"
      [] OTHER -> "unknown-glyph"

\* a line of StatusCommand that shows the parentheses whatever the agent
StatusLineAlwaysAgent(st) ==
    <<Glyph(st.status), " ">> \o Take(st.id, IdShown) \o <<"... - ", st.status>>
        \o <<" (", st.agent, ")">>

\* one line of StatusCommand: glyph, truncated id, status, agent when present
StatusLine(st) ==
    <<Glyph(st.status), " ">> \o Take(st.id, IdShown) \o <<"... - ", st.status>>
        \o (IF st.agent # "" THEN <<" (", st.agent, ")">> ELSE <<>>)

\* the result of StatusCommand; statuses is the server's status map, in its order
StatusResult(statuses) ==
    IF statuses = <<>>
    THEN CommandResult(TRUE, <<"No active sessions.">>, None)
    ELSE CommandResult(TRUE,
             JoinLines(<< <<"**Session Status:**\n">> >>
                       \o [i \in 1..Len(statuses) |-> StatusLine(statuses[i])]),
             None)

\* str(k) of a number k >= 0
RECURSIVE NumText(_)
NumText(k) ==
    IF k < 10 THEN <<(<<"0">> \o Digits)[k + 1]>>
    ELSE NumText(k \div 10) \o <<(<<"0">> \o Digits)[(k % 10) + 1]>>

\* one line of SessionsCommand
SessionLine(se) ==
    <<"* ">> \o Take(se.id, IdShown) \o <<"... - ">>
        \o (IF se.title # <<>> THEN se.title ELSE <<"Untitled">>)

\* a SessionsCommand that lists every session and never adds the suffix
SessionsResultUnlimited(list) ==
    IF list = <<>>
    THEN CommandResult(TRUE, <<"No sessions found.">>, None)
    ELSE CommandResult(TRUE,
             JoinLines(<< <<"**Sessions:**\n">> >>
                       \o [i \in 1..Len(list) |-> SessionLine(list[i])]),
             None)

\* the result of SessionsCommand; list is the server's list
SessionsResult(list) ==
    IF list = <<>>
    THEN CommandResult(TRUE, <<"No sessions found.">>, None)
    ELSE CommandResult(TRUE,
             JoinLines(<< <<"**Sessions:**\n">> >>
                       \o [i \in 1..Min(Len(list), ListLimit) |-> SessionLine(list[i])]
                       \o (IF Len(list) > ListLimit
                           THEN << <<"\n... and ">> \o NumText(Len(list) - ListLimit)
                                   \o <<" more">> >>
                           ELSE <<>>)),
             None)

\* the running ids of the status map, the last of the map first
RECURSIVE RunningLastFirst(_)
RunningLastFirst(statuses) ==
    IF statuses = <<>> THEN <<>>
    ELSE RunningLastFirst(Tail(statuses))
         \o (IF Head(statuses).status = "running" THEN <<Head(statuses).id>> ELSE <<>>)

\* the ids of the status map whose status is running, in the map's order
RECURSIVE Running(_)
Running(statuses) ==
    IF statuses = <<>> THEN <<>>
    ELSE (IF Head(statuses).status = "running" THEN <<Head(statuses).id>> ELSE <<>>)
         \o Running(Tail(statuses))

NoRunningResult == CommandResult(FALSE, <<"No running tasks to abort.">>, None)

AbortedResult(sid) ==
    CommandResult(TRUE, <<"Aborted session ">> \o Take(sid, IdShown) \o <<"...">>, None)

MODEL_LIST ==
    <<"**Available models:**\n", "claude-opus-4.5", "claude-sonnet-4.5",
      "gemini-3-pro-high", "gemini-3-flash", "Usage: /model <name>">>

\* the result of ModelCommand
ModelResult(args) ==
    IF Blank(args)
    THEN CommandResult(TRUE, MODEL_LIST, None)
    ELSE CommandResult(TRUE, <<"Switched to model: ">> \o Strip(args), None)

\* ", ".join(texts)
RECURSIVE JoinComma(_)
JoinComma(texts) ==
    IF texts = <<>> THEN <<>>
    ELSE IF Len(texts) = 1 THEN texts[1]
    ELSE texts[1] \o <<", ">> \o JoinComma(Tail(texts))

\* the first command, in the registry's order, that lists key among its aliases
AliasSearch(d, key) ==
    LET hit(i) == \E j \in 1..Len(ALL_COMMANDS[d[i].cmd].aliases) :
                      ALL_COMMANDS[d[i].cmd].aliases[j] = key
    IN  IF \E i \in 1..Len(d) : hit(i)
        THEN Some(d[CHOOSE i \in 1..Len(d) : hit(i) /\ \A k \in 1..(i - 1) : ~hit(k)].cmd)
        ELSE None

\* one line of the general help
HelpLine(c) ==
    <<"* /">> \o ALL_COMMANDS[c].name \o <<" - ">> \o ALL_COMMANDS[c].description

\* the help for one command
HelpFor(c) ==
    <<"**/">> \o c.name \o <<"**">>
        \o (IF c.aliases # <<>>
            THEN <<" (aliases: ">> \o JoinComma(c.aliases) \o <<")">>
            ELSE <<>>)
        \o <<"\n\n">> \o c.description \o <<"\n\nUsage: ">> \o c.usage

\* the result of HelpCommand; d is bot.commands
HelpResult(args, d) ==
    LET cmd_name == Lower(Strip(args))
        byKey == DictGet(d, cmd_name)
        cmd == IF byKey # None THEN byKey ELSE AliasSearch(d, cmd_name)
    IN  IF ~Blank(args)
        THEN IF cmd = None
             THEN CommandResult(FALSE, <<"Unknown command: ">> \o cmd_name, None)
             ELSE CommandResult(TRUE, HelpFor(ALL_COMMANDS[cmd[1]]), None)
        ELSE CommandResult(TRUE,
                 JoinLines(<< <<"**codebeep Commands:**\n">> >>
                           \o [i \in 1..Len(d) |-> HelpLine(d[i].cmd)]
                           \o << <<"\n\nUse /help <command> for more details.">> >>),
                 None)

\* one line of AgentsCommand
AgentLine(a) == <<"* **">> \o a.name \o <<"** - ">> \o a.description

\* the result of AgentsCommand; agents is the server's list
AgentsResult(agents) ==
    IF agents = <<>>
    THEN CommandResult(TRUE, <<"No agents available.">>, None)
    ELSE CommandResult(TRUE,
             JoinLines(<< <<"**Available Agents:**\n">> >>
                       \o [i \in 1..Len(agents) |-> AgentLine(agents[i])]),
             None)

(* ----------------------- stretches of the handlers -------------------- *)
(* Each operator takes a task and gives the task as the stretch leaves it: *)
(* suspended on the next call, returned ("done") or raised ("raised").     *)

\* range(0, n, step) for step > 0
RECURSIVE RangeFrom(_, _, _)
RangeFrom(i, n, step) ==
    IF i >= n THEN <<>> ELSE <<i>> \o RangeFrom(i + step, n, step)

\* message[i : i + max_len - 1]: a slice one short
SliceShort(message, i, max_len) == SubSeq(message, i + 1, Min(i + max_len - 1, Len(message)))

\* message[i : i + max_len]
Slice(message, i, max_len) == SubSeq(message, i + 1, Min(i + max_len, Len(message)))

\* the parts _send_result sends
Parts(message, max_len) ==
    IF Len(message) > max_len
    THEN LET starts == RangeFrom(0, Len(message), max_len)
         IN  [k \in 1..Len(starts) |-> Slice(message, starts[k], max_len)]
    ELSE <<message>>

\* the bare end of a call: it returned, or raised err
Ends(tk, exc) ==
    [tk EXCEPT !.pc = IF exc = None THEN "done" ELSE "raised", !.exc = exc]

\* a finally clause that runs only when no exception is on its way out
FinallyOnSuccess(tk, cfg, pending) ==
    IF cfg.typing_indicator /\ pending = None
    THEN Await([tk EXCEPT !.exc = pending], "typing_off",
               ChatCall("room_typing", tk.room, <<>>, FALSE))
    ELSE Ends(tk, pending)

\* finally: typing off when the indicator is configured; pending is the
\* exception on its way out of handle_message, if any
Finally(tk, cfg, pending) ==
    IF cfg.typing_indicator
    THEN Await([tk EXCEPT !.exc = pending], "typing_off",
               ChatCall("room_typing", tk.room, <<>>, FALSE))
    ELSE Ends(tk, pending)

\* except Exception as e: reply with the error text
Except(tk, err) ==
    Await(tk, "error_reply",
          ChatCall("send_text_message", tk.room, <<"Error executing command: ">> \o err, FALSE))

\* An exception leaves the operation the task was called for: inside
\* handle_message it reaches the except clause, elsewhere the caller.
Raise(tk, err) ==
    IF tk.kind = "message" THEN Except(tk, err) ELSE Ends(tk, Some(err))

\* a _send_result that sends to the room of the bot's shell, whichever room
\* the message came from
BeginSendToShell(tk, cfg, message) ==
    LET parts == Parts(message, cfg.max_message_length)
    IN  Await([tk EXCEPT !.parts = parts], "deliver",
              ChatCall("send_markdown_message", "!shell:hs", parts[1], FALSE))

\* _send_result up to its first send
BeginSend(tk, cfg, message) ==
    LET parts == Parts(message, cfg.max_message_length)
    IN  Await([tk EXCEPT !.parts = parts], "deliver",
              ChatCall("send_markdown_message", tk.room, parts[1], FALSE))

\* cmd.execute returned r: handle_message goes on to deliver it
Returned(tk, cfg, r) ==
    IF tk.kind = "message"
    THEN BeginSend([tk EXCEPT !.result = Some(r)], cfg, r.message)
    ELSE Ends([tk EXCEPT !.result = Some(r)], None)

\* a command without its except clause: the failure of call op leaves execute
CommandLetsThrough(tk, cfg, op) == Raise(tk, ErrText(op))

\* the except clause of a command: the failure of call op becomes its result
CommandCatches(tk, cfg, op) == Returned(tk, cfg, FailedResult(tk.cmd[1], ErrText(op)))

\* get_or_create_session that never looks at the cache
BeginGetOrCreateFresh(tk, active) ==
    Await(tk, "create_session", CpCall("createSession", <<>>, SESSION_TITLE, ""))

\* get_or_create_session up to its first call
BeginGetOrCreate(tk, active) ==
    IF active # None
    THEN Await(tk, "get_session", CpCall("getSession", active[1].id, <<>>, ""))
    ELSE Await(tk, "create_session", CpCall("createSession", <<>>, SESSION_TITLE, ""))

\* the cache after a failed verification, left as it was
AfterVerifyFailsKept(active) == active

\* except Exception: self.active_session = None
AfterVerifyFails(active) == None

\* a send that passes the current-model preference on
SendRequestWithModel(tk, s) ==
    [CpCall("sendMessageAsync", s.id, tk.args, AgentOf(tk.cmd[1])) EXCEPT
        !.model = current_model]

\* a failed verification that reaches the caller of get_or_create_session
VerifyFailedRaises(tk) == Raise(tk, ErrText("getSession"))

\* getSession raised: the except clause swallows it and get_or_create_session
\* goes on to createSession
VerifyFailed(tk) ==
    Await(tk, "create_session", CpCall("createSession", <<>>, SESSION_TITLE, ""))

\* send_message_async(session_id=session.id, content=args, agent=...): the
\* model parameter is left at its default, None
SendRequest(tk, s) == CpCall("sendMessageAsync", s.id, tk.args, AgentOf(tk.cmd[1]))

\* get_or_create_session returned s: a build or plan command sends to it
GotSession(tk, s) ==
    IF tk.kind = "get_or_create"
    THEN Ends([tk EXCEPT !.ret = Some(s)], None)
    ELSE Await([tk EXCEPT !.session = Some(s)], "send_async", SendRequest(tk, s))

\* createSession raised: get_or_create_session raises
CreateRaises(tk, cfg) ==
    IF tk.kind = "get_or_create"
    THEN Ends(tk, Some(ErrText("createSession")))
    ELSE CommandCatches(tk, cfg, "createSession")

BeginAbort(tk, sid) ==
    Await([tk EXCEPT !.sid = sid], "abort_session", CpCall("abortSession", sid, <<>>, ""))

\* cmd.execute(bot, args) up to its first call, or to its end when it makes none
BeginExecute(tk, cfg, active) ==
    LET c == tk.cmd[1]
    IN  CASE c \in {BUILD, PLAN} ->
               IF Blank(tk.args) THEN Returned(tk, cfg, UsageResult(c))
               ELSE BeginGetOrCreate(tk, active)
          [] c = STATUS -> Await(tk, "get_status", CpCall("getSessionStatus", <<>>, <<>>, ""))
          [] c = SESSIONS -> Await(tk, "list_sessions", CpCall("listSessions", <<>>, <<>>, ""))
          [] c = ABORT ->
               IF Strip(tk.args) = <<>>
               THEN Await(tk, "abort_status", CpCall("getSessionStatus", <<>>, <<>>, ""))
               ELSE BeginAbort(tk, Strip(tk.args))
          [] c = MODEL -> Returned(tk, cfg, ModelResult(tk.args))
          [] c = HELP -> Returned(tk, cfg, HelpResult(tk.args, Commands))
          [] c = AGENTS -> Await(tk, "list_agents", CpCall("listAgents", <<>>, <<>>, ""))

\* the preference set to the argument as typed, whenever there is one
ModelAfterAsTyped(tk, model) ==
    IF tk.cmd[1] = MODEL /\ tk.args # <<>> THEN Some(tk.args) ELSE model

\* bot.current_model after the stretch of BeginExecute
ModelAfter(tk, model) ==
    IF tk.cmd[1] = MODEL /\ ~Blank(tk.args) THEN Some(Strip(tk.args)) ELSE model

\* lines 164-169: typing on when configured, then execute
BeginCommand(tk, cfg, active) ==
    IF cfg.typing_indicator
    THEN Await(tk, "typing_on", ChatCall("room_typing", tk.room, <<>>, TRUE))
    ELSE BeginExecute(tk, cfg, active)

\* everybody may use the bot
is_user_allowed_all(allowed, user_id) == TRUE

\* CodeBeepBot.is_user_allowed; allowed is config.matrix.allowed_users
is_user_allowed(allowed, user_id) ==
    IF allowed = <<>> THEN TRUE
    ELSE \E i \in 1..Len(allowed) : allowed[i] = user_id

\* the identity the chat transport knows the bot by (room.own_user_id)
OwnUserId == "@codebeep:hs"

\* the unknown-command reply sent whatever the configuration says
ReplyToUnknownAlways(cfg) == TRUE

\* "if self.config.bot.unknown_command_reply"
ReplyToUnknown(cfg) == cfg.unknown_command_reply

\* a self-echo guard without the fallback of its except clause
FromBotMatchOnly(cfg, event) == ~event.match_raises /\ event.sender[1] = OwnUserId

\* the self-echo guard: "not match.is_not_from_this_bot()", and the comparison
\* of the sender with the configured username when the match facility raises
FromBot(cfg, event) ==
    IF event.match_raises
    THEN event.sender[1] = cfg.username
    ELSE event.sender[1] = OwnUserId

\* Lines 102-156 of handle_message: the guards, the parse and the lookup.
\* stop names the guard that ended the handling, "unknown" a lookup miss and
\* "resolved" a hit.  event.sender is optional (an event may lack the
\* attribute); event.match_raises says that the transport's message-match
\* facility raises for this event.
Dispatch(cfg, event) ==
    LET sender == event.sender[1]
        body == event.body
        from_bot == FromBot(cfg, event)
        parts == SplitOnce(DropFirst(body, Len(cfg.prefix)))
        cmd_name == Lower(parts[1])
        args == IF Len(parts) > 1 THEN parts[2] ELSE <<>>
        cmd == DictGet(Commands, cmd_name)
        Stop(why) == [stop |-> why, cmd |-> None, cmd_name |-> <<>>, args |-> <<>>]
    IN  IF event.sender = None \/ sender = "" THEN Stop("no_sender")
        ELSE IF body = <<>> THEN Stop("no_body")
        ELSE IF from_bot THEN Stop("from_bot")
        ELSE IF ~is_user_allowed(cfg.allowed_users, sender) THEN Stop("unauthorized")
        ELSE IF ~StartsWith(body, cfg.prefix) THEN Stop("no_prefix")
        ELSE IF parts = <<>> THEN Stop("no_command")
        ELSE [stop |-> IF cmd = None THEN "unknown" ELSE "resolved",
              cmd |-> cmd, cmd_name |-> cmd_name, args |-> args]

\* handle_message from its entry to its first call, or to its return
BeginMessage(tk, cfg, active) ==
    LET d == Dispatch(cfg, tk.event)
        t1 == [tk EXCEPT !.stop = d.stop, !.cmd = d.cmd, !.args = d.args,
                         !.cmd_name = d.cmd_name]
    IN  IF d.stop = "resolved" THEN BeginCommand(t1, cfg, active)
        ELSE IF d.stop = "unknown" /\ ReplyToUnknown(cfg)
        THEN Await(t1, "unknown_reply",
                   ChatCall("send_text_message", tk.room,
                            <<"Unknown command", ": ">> \o d.cmd_name
                                \o <<"\nUse /help to see available commands.">>, FALSE))
        ELSE Ends(t1, None)

(* ----------------------------- environment ---------------------------- *)

\* The coroutines that can be in progress at once, and the one that runs when
\* calls are made one after the other.
Tasks == {"main", "other"}
Serial == {"main"}

Slash == <<"/">>
Sp == <<" ">>
Alice == "@alice:hs"
Mallory == "@mallory:hs"
Rooms == {"!shell:hs", "!other:hs"}
ModelName == <<"g","p","t">>

\* the message bodies the dispatcher is given
Bodies ==
    { <<"h","i">>, Slash, Slash \o <<"z","z">>,
      Slash \o <<"z">> \o Sp \o <<"x">>,
      Slash \o <<"b">> \o Sp \o <<"x">>,
      Slash \o <<"B","u","I","L","D">> \o Sp \o <<"f","i","x">> \o Sp \o <<"i","t">>,
      Slash \o S_build,
      Slash \o <<"P">> \o Sp \o <<"x">>,
      Slash \o <<"p">> \o Sp \o Sp,
      Slash \o <<"s">>, Slash \o <<"l","s">>, Slash \o <<"s","t","o","p">>,
      Slash \o S_abort \o Sp \o SessionId(2),
      Slash \o <<"m">>, Slash \o <<"m">> \o Sp \o ModelName,
      Slash \o <<"h">>, Slash \o S_help \o Sp \o <<"D","o">>,
      Slash \o <<"a">> }

\* the events the dispatcher is given: every body from an authorized sender,
\* and one command from each sender a guard turns away
Events ==
    [sender : {Some(Alice)}, match_raises : {FALSE}, body : Bodies \cup {<<>>}]
    \cup [sender : {None, Some(""), Some(Alice), Some(Mallory), Some(OwnUserId)},
          match_raises : BOOLEAN, body : {Slash \o <<"h">>}]

\* the configurations the dispatcher is run under
Configs ==
    [prefix : {Slash}, username : {OwnUserId}, allowed_users : {<<>>, <<Alice>>},
     unknown_command_reply : BOOLEAN, typing_indicator : BOOLEAN,
     max_message_length : {DefaultMaxMessageLength}]

\* the status maps the server answers getSessionStatus with
StatusMaps ==
    { <<>>,
      << [id |-> SessionId(2), status |-> "idle", agent |-> ""],
         [id |-> SessionId(1), status |-> "running", agent |-> "build"] >>,
      << [id |-> SessionId(2), status |-> "waiting", agent |-> "plan"],
         [id |-> SessionId(3), status |-> "running", agent |-> "plan"],
         [id |-> SessionId(1), status |-> "running", agent |-> "build"] >>,
      << [id |-> SessionId(1), status |-> "error", agent |-> ""],
         [id |-> SessionId(2), status |-> "idle", agent |-> "build"] >> }

\* the agent lists the server answers listAgents with
AgentLists == { <<>>, << [name |-> <<"build">>, description |-> <<"Full access">>] >> }

(* ------------------------------- actions ------------------------------ *)

\* the timeout, in seconds, that OpenCodeClient.__init__ takes by default
DefaultTimeout == 30

\* the timeout, in seconds, passed with a blocking turn submission
LongTimeout == 300

\* OpenCodeClient.__init__ as the bot calls it, with the default timeout: no
\* handle yet, nothing opened, no request sent, no stream
NewClient ==
    [_client |-> None, timeout |-> DefaultTimeout, handles |-> <<>>, uses |-> <<>>,
     requests |-> <<>>, gen |-> "none", exc |-> None, lines |-> <<>>,
     yielded |-> <<>>]

\* run_bot before it awaits bot.start(): _event_task is None
NotStarted ==
    [pc |-> "new", event_task |-> "none", logged_in |-> FALSE, callbacks |-> <<>>,
     log |-> <<>>, exc |-> None, exit |-> None]

\* CodeBeepBot.__init__ under configuration cfg, against a server without sessions
InitWith(cfg) ==
    /\ config = cfg
    /\ active_session = None
    /\ current_model = None
    /\ sessions = <<>>
    /\ created = 0
    /\ handler = [t \in Tasks |-> IdleTask]
    /\ hist = None
    /\ client = NewClient
    /\ boot = NotStarted

Init == \E cfg \in Configs : InitWith(cfg)

\* a task entered for an operation of the given kind
Entered(kind) ==
    [IdleTask EXCEPT !.kind = kind, !.pre_active = active_session,
                     !.pre_model = current_model]

\* the last call of task t returns (ok) or raises
Back(t, ok) == Settle(handler[t], IF ok THEN "ok" ELSE "raised")

Goes(t, tk) == handler' = [handler EXCEPT ![t] = tk]

\* the chat transport delivers a room message to on_message
HandleMessage(t) ==
    /\ handler[t].pc = "idle"
    /\ \E room \in Rooms, event \in Events :
          LET tk == BeginMessage([Entered("message") EXCEPT !.room = room, !.event = event],
                                 config, active_session)
          IN  /\ Goes(t, tk)
              /\ current_model' = IF tk.stop = "resolved" /\ tk.pc # "typing_on"
                                  THEN ModelAfter(tk, current_model)
                                  ELSE current_model
    /\ UNCHANGED <<config, active_session, sessions, created, hist,
                 client, boot>>

\* the unknown-command reply returns; handle_message returns after it
UnknownReplyReturns(t) ==
    /\ handler[t].pc = "unknown_reply"
    /\ \E ok \in BOOLEAN :
          Goes(t, Ends(Back(t, ok),
                       IF ok THEN None ELSE Some(ErrText("send_text_message"))))
    /\ UNCHANGED <<config, active_session, current_model, sessions, created, hist,
                 client, boot>>

\* room_typing(True) returns; it is awaited before the try statement
TypingOnReturns(t) ==
    /\ handler[t].pc = "typing_on"
    /\ \/ /\ Goes(t, BeginExecute(Back(t, TRUE), config, active_session))
          /\ current_model' = ModelAfter(handler[t], current_model)
       \/ /\ Goes(t, Ends(Back(t, FALSE), Some(ErrText("room_typing"))))
          /\ UNCHANGED current_model
    /\ UNCHANGED <<config, active_session, sessions, created, hist,
                 client, boot>>

\* getSession returns the session the server holds, or raises
GetSessionReturns(t) ==
    /\ handler[t].pc = "get_session"
    /\ LET sid == handler[t].calls[Len(handler[t].calls)].sid
       IN  \/ /\ HasSession(sessions, sid)
              /\ Goes(t, GotSession(Back(t, TRUE), SessionOf(sessions, sid)))
              /\ UNCHANGED active_session
           \/ /\ Goes(t, VerifyFailed(Back(t, FALSE)))
              /\ active_session' = AfterVerifyFails(active_session)
    /\ UNCHANGED <<config, current_model, sessions, created, hist,
                 client, boot>>

\* the binding takes the created session only when it is empty
BindIfEmpty(active, s) == IF active = None THEN Some(s) ELSE active

\* self.active_session = await self.opencode.create_session(...)
Bind(active, s) == Some(s)

\* createSession returns a new session, or raises
CreateSessionReturns(t) ==
    /\ handler[t].pc = "create_session"
    /\ \/ /\ created < MaxSessions
          /\ LET s == [id |-> SessionId(created + 1), title |-> SESSION_TITLE]
             IN  /\ sessions' = Append(sessions, s)
                 /\ created' = created + 1
                 /\ active_session' = Bind(active_session, s)
                 /\ Goes(t, GotSession(Back(t, TRUE), s))
       \/ /\ Goes(t, CreateRaises(Back(t, FALSE), config))
          /\ UNCHANGED <<active_session, sessions, created>>
    /\ UNCHANGED <<config, current_model, hist,
                 client, boot>>

\* an except clause that forgets the binding when the send fails
AfterSendFailsCleared(active) == None

\* the binding after sendMessageAsync raised: the except clause of the
\* command does not touch it
AfterSendFails(active) == active

\* sendMessageAsync is accepted, or raises
SendAsyncReturns(t) ==
    /\ handler[t].pc = "send_async"
    /\ \/ /\ HasSession(sessions, handler[t].session[1].id)
          /\ Goes(t, Returned(Back(t, TRUE), config,
                              StartedResult(handler[t].cmd[1], handler[t].session[1].id)))
          /\ UNCHANGED active_session
       \/ /\ Goes(t, CommandCatches(Back(t, FALSE), config, "sendMessageAsync"))
          /\ active_session' = AfterSendFails(active_session)
    /\ UNCHANGED <<config, current_model, sessions, created, hist,
                 client, boot>>

\* getSessionStatus returns a status map to StatusCommand, or raises
GetStatusReturns(t) ==
    /\ handler[t].pc = "get_status"
    /\ \/ \E statuses \in StatusMaps :
             Goes(t, Returned([Back(t, TRUE) EXCEPT !.statuses = Some(statuses)],
                              config, StatusResult(statuses)))
       \/ Goes(t, CommandCatches(Back(t, FALSE), config, "getSessionStatus"))
    /\ UNCHANGED <<config, active_session, current_model, sessions, created, hist,
                 client, boot>>

\* listSessions returns the server's sessions, or raises
ListSessionsReturns(t) ==
    /\ handler[t].pc = "list_sessions"
    /\ \/ Goes(t, Returned(Back(t, TRUE), config, SessionsResult(sessions)))
       \/ Goes(t, CommandCatches(Back(t, FALSE), config, "listSessions"))
    /\ UNCHANGED <<config, active_session, current_model, sessions, created, hist,
                 client, boot>>

\* getSessionStatus returns a status map to AbortCommand, or raises
AbortStatusReturns(t) ==
    /\ handler[t].pc = "abort_status"
    /\ \/ \E statuses \in StatusMaps :
             Goes(t, IF Running(statuses) = <<>>
                     THEN Returned([Back(t, TRUE) EXCEPT !.statuses = Some(statuses)],
                                   config, NoRunningResult)
                     ELSE BeginAbort([Back(t, TRUE) EXCEPT !.statuses = Some(statuses)],
                                     Running(statuses)[1]))
       \/ Goes(t, CommandCatches(Back(t, FALSE), config, "getSessionStatus"))
    /\ UNCHANGED <<config, active_session, current_model, sessions, created, hist,
                 client, boot>>

\* an abort that forgets the binding when it aborts the session bound
AfterAbortCleared(active, sid) ==
    IF active # None /\ active[1].id = sid THEN None ELSE active

\* the binding after AbortCommand has aborted session sid: the command does
\* not touch it
AfterAbort(active, sid) == active

\* abortSession returns, or raises
AbortSessionReturns(t) ==
    /\ handler[t].pc = "abort_session"
    /\ \/ /\ Goes(t, Returned(Back(t, TRUE), config, AbortedResult(handler[t].sid)))
          /\ active_session' = AfterAbort(active_session, handler[t].sid)
       \/ /\ Goes(t, CommandCatches(Back(t, FALSE), config, "abortSession"))
          /\ UNCHANGED active_session
    /\ UNCHANGED <<config, current_model, sessions, created, hist,
                 client, boot>>

\* listAgents returns an agent list, or raises
ListAgentsReturns(t) ==
    /\ handler[t].pc = "list_agents"
    /\ \/ \E agents \in AgentLists :
             Goes(t, Returned(Back(t, TRUE), config, AgentsResult(agents)))
       \/ Goes(t, CommandCatches(Back(t, FALSE), config, "listAgents"))
    /\ UNCHANGED <<config, active_session, current_model, sessions, created, hist,
                 client, boot>>

\* _send_result has sent its last part and returns
Delivered(tk, cfg) ==
    IF tk.kind = "message" THEN Finally(tk, cfg, None) ELSE Ends(tk, None)

\* send_markdown_message returns: the next part is sent, or _send_result returns;
\* or it raises, and the parts not yet sent are never sent
DeliverReturns(t) ==
    /\ handler[t].pc = "deliver"
    /\ \/ LET tk == Back(t, TRUE)
          IN  Goes(t, IF Len(tk.parts) > 1
                      THEN Await([tk EXCEPT !.parts = Tail(tk.parts)], "deliver",
                                 ChatCall("send_markdown_message", tk.room,
                                          tk.parts[2], FALSE))
                      ELSE Delivered(tk, config))
       \/ Goes(t, Raise(Back(t, FALSE), ErrText("send_markdown_message")))
    /\ UNCHANGED <<config, active_session, current_model, sessions, created, hist,
                 client, boot>>

\* the send_text_message of the except clause returns, or raises out of the clause
ErrorReplyReturns(t) ==
    /\ handler[t].pc = "error_reply"
    /\ \/ Goes(t, Finally(Back(t, TRUE), config, None))
       \/ Goes(t, Finally(Back(t, FALSE), config, Some(ErrText("send_text_message"))))
    /\ UNCHANGED <<config, active_session, current_model, sessions, created, hist,
                 client, boot>>

\* room_typing(False) of the finally clause returns, and the pending exception
\* (if any) goes on; or it raises and its own exception leaves handle_message
TypingOffReturns(t) ==
    /\ handler[t].pc = "typing_off"
    /\ \/ Goes(t, Ends(Back(t, TRUE), handler[t].exc))
       \/ Goes(t, Ends(Back(t, FALSE), Some(ErrText("room_typing"))))
    /\ UNCHANGED <<config, active_session, current_model, sessions, created, hist,
                 client, boot>>

\* handle_message has returned and the transport hands over the next event
NextEvent(t) ==
    /\ handler[t].pc = "done"
    /\ handler[t].kind = "message"
    /\ Goes(t, IdleTask)
    /\ UNCHANGED <<config, active_session, current_model, sessions, created, hist,
                 client, boot>>

\* the server loses a session (deleted by another client, or by a restart)
ServerDelete ==
    /\ \E i \in 1..Len(sessions) : sessions' = Without(sessions, i)
    /\ UNCHANGED <<config, active_session, current_model, created, handler, hist,
                 client, boot>>

\* the bot in service: messages arrive and are handled one after the other
Next ==
    \/ \E t \in Serial : HandleMessage(t)
    \/ \E t \in Serial : UnknownReplyReturns(t)
    \/ \E t \in Serial : TypingOnReturns(t)
    \/ \E t \in Serial : GetSessionReturns(t)
    \/ \E t \in Serial : CreateSessionReturns(t)
    \/ \E t \in Serial : SendAsyncReturns(t)
    \/ \E t \in Serial : GetStatusReturns(t)
    \/ \E t \in Serial : ListSessionsReturns(t)
    \/ \E t \in Serial : AbortStatusReturns(t)
    \/ \E t \in Serial : AbortSessionReturns(t)
    \/ \E t \in Serial : ListAgentsReturns(t)
    \/ \E t \in Serial : DeliverReturns(t)
    \/ \E t \in Serial : ErrorReplyReturns(t)
    \/ \E t \in Serial : TypingOffReturns(t)
    \/ \E t \in Serial : NextEvent(t)
    \/ ServerDelete

Spec == Init /\ [][Next]_vars

(* ------------------- the operations called directly ------------------- *)
(* The unit tests call cmd.execute, get_or_create_session and _send_result  *)
(* on a bot without going through handle_message; so do the specifications *)
(* below.  An exception such a call raises reaches its caller, which may    *)
(* call again.                                                              *)

\* the argument strings execute is called with
ExecArgs ==
    { <<>>, Sp, <<" ", "\t">>, <<"\n">>, <<"x">>, <<" ", "x", " ">>,
      SessionId(1), S_build, <<"D","o">> }

\* a caller awaits cmd.execute(bot, args)
CallExecute(t) ==
    /\ handler[t].pc = "idle"
    /\ \E c \in 1..Len(ALL_COMMANDS), args \in ExecArgs :
          LET tk == [Entered("execute") EXCEPT !.cmd = Some(c), !.args = args]
          IN  /\ Goes(t, BeginExecute(tk, config, active_session))
              /\ current_model' = ModelAfter(tk, current_model)
    /\ hist' = None
    /\ UNCHANGED <<config, active_session, sessions, created, client, boot>>

\* a caller awaits bot.get_or_create_session()
CallGetOrCreate(t) ==
    /\ handler[t].pc = "idle"
    /\ Goes(t, BeginGetOrCreate(Entered("get_or_create"), active_session))
    /\ UNCHANGED <<config, active_session, current_model, sessions, created, hist,
                 client, boot>>

\* the call has returned or raised, and the caller has its outcome
Return(t) ==
    /\ handler[t].pc \in {"done", "raised"}
    /\ handler[t].kind # "message"
    /\ Goes(t, IdleTask)
    /\ hist' = IF handler[t].kind = "get_or_create"
               THEN Some([pre_active |-> handler[t].pre_active, ret |-> handler[t].ret,
                          exc |-> handler[t].exc, calls |-> handler[t].calls])
               ELSE hist
    /\ UNCHANGED <<config, active_session, current_model, sessions, created,
                 client, boot>>

InitExec ==
    InitWith([prefix |-> Slash, username |-> OwnUserId, allowed_users |-> <<>>,
              unknown_command_reply |-> TRUE, typing_indicator |-> TRUE,
              max_message_length |-> DefaultMaxMessageLength])

NextExec ==
    \/ \E t \in Serial : CallExecute(t)
    \/ \E t \in Serial : CallGetOrCreate(t)
    \/ \E t \in Serial : GetSessionReturns(t)
    \/ \E t \in Serial : CreateSessionReturns(t)
    \/ \E t \in Serial : SendAsyncReturns(t)
    \/ \E t \in Serial : GetStatusReturns(t)
    \/ \E t \in Serial : ListSessionsReturns(t)
    \/ \E t \in Serial : AbortStatusReturns(t)
    \/ \E t \in Serial : AbortSessionReturns(t)
    \/ \E t \in Serial : ListAgentsReturns(t)
    \/ \E t \in Serial : Return(t)
    \/ ServerDelete

\* commands executed and sessions obtained by direct calls
SpecExec == InitExec /\ [][NextExec]_vars

\* every text of at most MaxText characters over two letters
Texts == UNION { [1..n -> {"a", "b"}] : n \in 0..MaxText }

\* a caller awaits bot._send_result(room_id, result)
CallSendResult(t) ==
    /\ handler[t].pc = "idle"
    /\ \E room \in Rooms, message \in Texts :
          LET r == CommandResult(TRUE, message, None)
              tk == [Entered("send_result") EXCEPT !.room = room, !.result = Some(r)]
          IN  Goes(t, BeginSend(tk, config, r.message))
    /\ UNCHANGED <<config, active_session, current_model, sessions, created, hist,
                 client, boot>>

InitDeliver ==
    \E max_len \in 1..MaxChunk :
        InitWith([prefix |-> Slash, username |-> OwnUserId, allowed_users |-> <<>>,
                  unknown_command_reply |-> TRUE, typing_indicator |-> TRUE,
                  max_message_length |-> max_len])

NextDeliver ==
    \/ \E t \in Serial : CallSendResult(t)
    \/ \E t \in Serial : DeliverReturns(t)
    \/ \E t \in Serial : Return(t)

\* results of every length delivered under small limits
SpecDeliver == InitDeliver /\ [][NextDeliver]_vars

\* str.upper() on one character
UpperChar(c) ==
    IF \E i \in 1..26 : LowerCase[i] = c
    THEN UpperCase[CHOOSE i \in 1..26 : LowerCase[i] = c]
    ELSE c

\* every way of typing key in upper and lower case
RECURSIVE Variants(_)
Variants(key) ==
    IF key = <<>> THEN {<<>>}
    ELSE { <<ch>> \o rest : ch \in {Head(key), UpperChar(Head(key))},
                            rest \in Variants(Tail(key)) }

\* the names and aliases of command c, as the class declares them
KeysOf(c) ==
    {ALL_COMMANDS[c].name}
        \cup {ALL_COMMANDS[c].aliases[i] : i \in 1..Len(ALL_COMMANDS[c].aliases)}

\* the prefix followed by a name or an alias, in every letter case
CaseBodies ==
    UNION { UNION { {Slash \o v : v \in Variants(key)} : key \in KeysOf(c) } :
            c \in 1..Len(ALL_COMMANDS) }

\* the chat transport delivers a command typed in some letter case
HandleAnyCase(t) ==
    /\ handler[t].pc = "idle"
    /\ \E room \in Rooms, body \in CaseBodies :
          LET event == [sender |-> Some(Alice), match_raises |-> FALSE, body |-> body]
              tk == BeginMessage([Entered("message") EXCEPT !.room = room, !.event = event],
                                 config, active_session)
          IN  Goes(t, tk)
    /\ UNCHANGED <<config, active_session, current_model, sessions, created, hist,
                 client, boot>>

InitRegistry ==
    InitWith([prefix |-> Slash, username |-> OwnUserId, allowed_users |-> <<Alice>>,
              unknown_command_reply |-> TRUE, typing_indicator |-> FALSE,
              max_message_length |-> DefaultMaxMessageLength])

NextRegistry ==
    \/ \E t \in Serial : HandleAnyCase(t)
    \/ \E t \in Serial : GetStatusReturns(t)
    \/ \E t \in Serial : ListSessionsReturns(t)
    \/ \E t \in Serial : AbortStatusReturns(t)
    \/ \E t \in Serial : AbortSessionReturns(t)
    \/ \E t \in Serial : ListAgentsReturns(t)
    \/ \E t \in Serial : DeliverReturns(t)
    \/ \E t \in Serial : ErrorReplyReturns(t)
    \/ \E t \in Serial : NextEvent(t)

\* every name and alias typed in every letter case
SpecRegistry == InitRegistry /\ [][NextRegistry]_vars

(* ------------------------- overlapping handlers ----------------------- *)
(* handle_message holds no lock: when the transport enters it for a second  *)
(* message while the first is suspended on a call, the two coroutines       *)
(* interleave at their awaits.                                              *)

\* the messages handled at the same time: tasks for the build and plan agents
ConcBodies ==
    { Slash \o <<"b">> \o Sp \o <<"x">>, Slash \o <<"P">> \o Sp \o <<"y">> }

\* handle_message is entered for a build or plan command, whatever the other
\* task is doing
HandleConcurrently(t) ==
    /\ handler[t].pc = "idle"
    /\ \E body \in ConcBodies :
          LET event == [sender |-> Some(Alice), match_raises |-> FALSE, body |-> body]
              tk == BeginMessage([Entered("message") EXCEPT !.room = "!shell:hs",
                                                            !.event = event],
                                 config, active_session)
          IN  Goes(t, tk)
    /\ UNCHANGED <<config, active_session, current_model, sessions, created, hist,
                   client, boot>>

InitConc ==
    InitWith([prefix |-> Slash, username |-> OwnUserId, allowed_users |-> <<>>,
              unknown_command_reply |-> FALSE, typing_indicator |-> FALSE,
              max_message_length |-> DefaultMaxMessageLength])

NextConc ==
    \/ \E t \in Tasks : HandleConcurrently(t)
    \/ \E t \in Tasks : GetSessionReturns(t)
    \/ \E t \in Tasks : CreateSessionReturns(t)
    \/ \E t \in Tasks : SendAsyncReturns(t)
    \/ \E t \in Tasks : DeliverReturns(t)
    \/ \E t \in Tasks : ErrorReplyReturns(t)
    \/ \E t \in Tasks : NextEvent(t)

\* two build or plan commands in progress at once
SpecConc == InitConc /\ [][NextConc]_vars

(* ---------------------------- the event stream ------------------------ *)

\* Lines the server sends on the event stream before it is cut off.
MaxLines == 3
\* Connection handles the client opens before opening one starts to fail.
MaxHandles == 3

\* len("data: "), the 6 of line[6:]
PrefixLen == 6

DataPrefix == <<"d", "a", "t", "a", ":", " ">>

\* JSON documents, each one unit of text
DocDone == "{type: session.message, sessionID: s1, message: {info: {role: assistant}}}"
DocUser == "{type: session.message, sessionID: s1, message: {info: {role: user}}}"
DocOther == "{type: server.connected}"
DocBadMessage == "{type: session.message, message: 7}"
DocNumber == "5"

\* the value json.loads gives for each document: a dict with the keys the
\* monitor reads, or a value that is not a dict
JsonValue(doc) ==
    CASE doc = DocDone ->
            [isdict |-> TRUE, type |-> "session.message", sessionID |-> "s1",
             message |-> "dict", role |-> "assistant"]
      [] doc = DocUser ->
            [isdict |-> TRUE, type |-> "session.message", sessionID |-> "s1",
             message |-> "dict", role |-> "user"]
      [] doc = DocOther ->
            [isdict |-> TRUE, type |-> "server.connected", sessionID |-> "",
             message |-> "absent", role |-> ""]
      [] doc = DocBadMessage ->
            [isdict |-> TRUE, type |-> "session.message", sessionID |-> "",
             message |-> "number", role |-> ""]
      [] doc = DocNumber ->
            [isdict |-> FALSE, type |-> "", sessionID |-> "",
             message |-> "absent", role |-> ""]

JsonDocs == {DocDone, DocUser, DocOther, DocBadMessage, DocNumber}

\* json.loads(data): the value of the one document data holds, whitespace
\* around it allowed; None stands for JSONDecodeError
JsonLoads(data) ==
    LET body == Strip(data)
    IN  IF Len(body) = 1 /\ body[1] \in JsonDocs
        THEN Some(JsonValue(body[1]))
        ELSE None

\* the document that fails to parse ends the generator with its exception
OnBadJsonRaise(cl) == [cl EXCEPT !.gen = "raised", !.exc = Some(<<"JSONDecodeError">>)]

\* except json.JSONDecodeError: logger.warning(...)
OnBadJson(cl) == cl

\* the body of "async for line in response.aiter_lines()" for one line
ReadLine(cl, line) ==
    IF StartsWith(line, DataPrefix)
    THEN LET data == DropFirst(line, PrefixLen)
         IN  IF data # <<>>
             THEN IF JsonLoads(data) # None
                  THEN [cl EXCEPT !.yielded = Append(@, JsonLoads(data)[1])]
                  ELSE OnBadJson(cl)
             ELSE cl
    ELSE cl

\* a _get_client that builds a handle whenever it is called
GetClientAlwaysNew(cl) ==
    [cl EXCEPT !.handles = Append(@, "open"), !._client = Some(Len(cl.handles) + 1)]

\* _get_client: the handle held if it is open, else a new one
GetClient(cl) ==
    IF cl._client = None \/ cl.handles[cl._client[1]] = "closed"
    THEN [cl EXCEPT !.handles = Append(@, "open"),
                    !._client = Some(Len(cl.handles) + 1)]
    ELSE cl

\* the operations given a timeout of their own
LongOps == {"sendMessage", "executeCommand"}

\* a client that gives the long timeout to sendMessageAsync as well
RequestTimeoutAsyncLong(cl, op) ==
    IF op \in LongOps \cup {"sendMessageAsync"} THEN LongTimeout ELSE cl.timeout

\* the timeout a request of operation op is sent with: the one passed with
\* the request, else the one the handle was built with, self.timeout
RequestTimeout(cl, op) ==
    IF op \in LongOps THEN LongTimeout ELSE cl.timeout

\* an operation of the client takes the handle _get_client gives and sends its
\* request on it; uses records the handle and the state it was in, requests
\* the request and its timeout
Uses(cl, op) ==
    LET c == GetClient(cl)
    IN  [c EXCEPT !.uses = Append(@, [op |-> op, handle |-> c._client[1],
                                      state |-> c.handles[c._client[1]]]),
                  !.requests = Append(@, [op |-> op,
                                          timeout |-> RequestTimeout(c, op)])]

\* close() that closes the handle but keeps holding it
CloseKeepsHandle(cl) ==
    IF cl._client # None
    THEN [cl EXCEPT !.handles[cl._client[1]] = "closed",
                    !.uses = Append(@, [op |-> "close", handle |-> cl._client[1],
                                        state |-> cl.handles[cl._client[1]]])]
    ELSE [cl EXCEPT !.uses = Append(@, [op |-> "close", handle |-> 0,
                                        state |-> "none"])]

\* close(): the handle held is closed and dropped; nothing happens when none
\* is held.  uses records the call, with handle 0 when none was held
Close(cl) ==
    IF cl._client # None
    THEN [cl EXCEPT !.handles[cl._client[1]] = "closed",
                    !._client = None,
                    !.uses = Append(@, [op |-> "close", handle |-> cl._client[1],
                                        state |-> cl.handles[cl._client[1]]])]
    ELSE [cl EXCEPT !.uses = Append(@, [op |-> "close", handle |-> 0,
                                        state |-> "none"])]

\* the lines the server sends
Lines ==
    { <<>>, <<"x">>, DataPrefix, DataPrefix \o <<"x">>,
      DataPrefix \o <<DocDone>>, DataPrefix \o <<DocOther>>,
      DataPrefix \o <<" ", DocUser, " ">>,
      DataPrefix \o <<DocOther, DocOther>>,
      <<"d", "a", "t", "a", ":">> \o <<DocDone>>,
      <<" ">> \o DataPrefix \o <<DocDone>>,
      DataPrefix \o <<DocBadMessage>>, DataPrefix \o <<DocNumber>> }

\* subscribe_events is entered: the request is sent and answered, or fails
Subscribe ==
    /\ client.gen = "none"
    /\ Len(client.handles) < MaxHandles
    /\ \/ client' = [Uses(client, "subscribeEvents") EXCEPT !.gen = "open"]
       \/ client' = [Uses(client, "subscribeEvents") EXCEPT
                        !.gen = "raised", !.exc = Some(ErrText("subscribeEvents"))]
    /\ UNCHANGED <<config, active_session, current_model, sessions, created,
                   handler, hist, boot>>

\* the server sends a line and the generator deals with it
StreamLine ==
    /\ client.gen = "open"
    /\ Len(client.lines) < MaxLines
    /\ \E line \in Lines :
          client' = ReadLine([client EXCEPT !.lines = Append(@, line)], line)
    /\ UNCHANGED <<config, active_session, current_model, sessions, created,
                   handler, hist, boot>>

\* the server closes the stream, or the connection breaks
StreamEnds ==
    /\ client.gen = "open"
    /\ \/ client' = [client EXCEPT !.gen = "ended"]
       \/ client' = [client EXCEPT !.gen = "raised",
                                   !.exc = Some(ErrText("subscribeEvents"))]
    /\ UNCHANGED <<config, active_session, current_model, sessions, created,
                   handler, hist, boot>>

NextEvents == Subscribe \/ StreamLine \/ StreamEnds

\* one subscription to the event stream, read to its end
SpecEvents == InitExec /\ [][NextEvents]_vars

\* line is the prefix "data: " followed by a payload that parses
WellFormed(line) ==
    /\ Len(line) > 6
    /\ SubSeq(line, 1, 6) = <<"d", "a", "t", "a", ":", " ">>
    /\ JsonLoads(SubSeq(line, 7, Len(line))) # None

\* the events of the well-formed lines among lines, in their order
RECURSIVE EventsIn(_)
EventsIn(lines) ==
    IF lines = <<>> THEN <<>>
    ELSE (IF WellFormed(Head(lines))
          THEN <<JsonLoads(SubSeq(Head(lines), 7, Len(Head(lines))))[1]>>
          ELSE <<>>) \o EventsIn(Tail(lines))

\* C12: whatever lines have arrived, subscribe_events has yielded exactly the
\* events of the well-formed ones, once each and in the order of their lines;
\* a line that is blank, lacks the prefix, has an empty payload or a payload
\* that does not parse yields nothing and does not end the stream (the
\* generator never raises a decode error and stays open until the stream ends
\* or the connection fails).
C12_MalformedLinesAreSkipped ==
    /\ client.yielded = EventsIn(client.lines)
    /\ client.exc # Some(<<"JSONDecodeError">>)
    /\ client.gen = "raised" => client.exc = Some(ErrText("subscribeEvents"))

\* C12 witness: a payload that does not parse has arrived, then a well-formed
\* line, whose event is the one event yielded, and the stream is still open.
C12_Witness ==
    /\ client.gen = "open"
    /\ Len(client.lines) >= 2
    /\ client.lines[1] = DataPrefix \o <<"x">>
    /\ WellFormed(client.lines[2])
    /\ Len(client.yielded) = 1

(* --------------------------- start and stop --------------------------- *)
(* boot.pc is where run_bot is suspended: "health", "login", "room_create", *)
(* "room_put_alias", "room_invite", "syncing" inside start(), "stop_wait"   *)
(* and "closing" inside stop(), "exited" when the process has ended.        *)
(* boot.event_task is the monitor task: "none", "pending" (created, not yet *)
(* run), "running" (suspended on the stream), "cancelling" (cancel() called *)
(* on it while it is suspended), "cancelled" (cancelled before it ever ran) *)
(* and "done".                                                              *)

LOG_HEALTH == "Failed to connect to OpenCode server"
LOG_BOOTSTRAP == "Bootstrap error"
LOG_MONITOR == "Error monitoring events"
LOG_COMPLETED == "Session completed"

\* the callbacks start() registers, in its order
CALLBACKS == <<"on_message", "on_invite", "on_encrypted", "on_text_debug">>

Log(b, entry) == [b EXCEPT !.log = Append(@, entry)]

\* the process ends: cli.run exits with status 1 on an exception, and returns
\* after a KeyboardInterrupt or a normal end
Exits(b) ==
    [b EXCEPT !.pc = "exited",
              !.exit = Some(IF b.exc \in {None, Some(<<"KeyboardInterrupt">>)}
                            THEN "0" ELSE "1")]

\* stop() from "await self.opencode.close()" on
BeginClose(b, cl) ==
    IF cl._client # None THEN [b EXCEPT !.pc = "closing"] ELSE Exits(b)

\* a process that ends without running stop()
BeginStopSkipped(b, cl) == Exits(b)

\* a stop() that cancels the monitor and closes the client without awaiting
\* the monitor first
BeginStopClosesFirst(b, cl) ==
    BeginClose([b EXCEPT !.event_task = CASE @ = "running" -> "cancelling"
                                          [] @ = "pending" -> "cancelled"
                                          [] OTHER -> @], cl)

\* stop() up to its first await: the monitor is cancelled and awaited when
\* there is one, then the client is closed
BeginStop(b, cl) ==
    CASE b.event_task = "running" ->
            [b EXCEPT !.pc = "stop_wait", !.event_task = "cancelling"]
      [] b.event_task = "pending" ->
            BeginClose([b EXCEPT !.event_task = "cancelled"], cl)
      [] OTHER -> BeginClose(b, cl)

\* an exception leaves start(): run_bot's finally clause runs stop()
StartRaises(b, cl, err) == BeginStop([b EXCEPT !.exc = Some(err)], cl)

\* a monitor that reports its cancellation as an error
MonitorCancelledLogged(b) == Log([b EXCEPT !.event_task = "done"], LOG_MONITOR)

\* except asyncio.CancelledError: pass
MonitorCancelled(b) == [b EXCEPT !.event_task = "done"]

\* except Exception as e: logger.exception(...)
MonitorFails(b) == Log([b EXCEPT !.event_task = "done"], LOG_MONITOR)

\* the body of the monitor's loop for event e: reading a key of something
\* that is not a dict raises, a completed assistant message is logged
MonitorBody(b, e) ==
    IF ~e.isdict THEN MonitorFails(b)
    ELSE IF e.type = "session.message"
         THEN IF e.message = "number" THEN MonitorFails(b)
              ELSE IF e.message = "dict" /\ e.role = "assistant"
                   THEN Log(b, LOG_COMPLETED)
                   ELSE b
         ELSE b

\* the lines the server sends while the bot runs
RunLines ==
    { DataPrefix \o <<"x">>, DataPrefix \o <<DocDone>>, DataPrefix \o <<DocOther>>,
      DataPrefix \o <<DocBadMessage>>, DataPrefix \o <<DocNumber>> }

\* what ends sync_forever when no handler raised
SyncErrors == {<<"KeyboardInterrupt">>, ErrText("sync")}

\* the messages that arrive while the bot runs: a listing of the models
RunEvents ==
    { [sender |-> Some(Alice), body |-> Slash \o <<"m">>, match_raises |-> FALSE] }

\* the bot built by run_bot, with the typing indicator turned off
InitRun ==
    InitWith([prefix |-> Slash, username |-> OwnUserId, allowed_users |-> <<>>,
              unknown_command_reply |-> TRUE, typing_indicator |-> FALSE,
              max_message_length |-> DefaultMaxMessageLength])

\* run_bot: the bot is built and start() awaits the health check
RunBot ==
    /\ boot.pc = "new"
    /\ boot' = [boot EXCEPT !.pc = "health"]
    /\ client' = Uses(client, "healthCheck")
    /\ UNCHANGED <<config, active_session, current_model, sessions, created,
                   handler, hist>>

\* the health check returns, and start() awaits the login; or it raises, which
\* start() logs and raises again
HealthReturns ==
    /\ boot.pc = "health"
    /\ \/ boot' = [boot EXCEPT !.pc = "login"]
       \/ boot' = StartRaises(Log(boot, LOG_HEALTH), client, ErrText("healthCheck"))
    /\ UNCHANGED <<config, active_session, current_model, sessions, created,
                   handler, hist, client>>

\* the login returns: the callbacks are registered, the monitor task is
\* created and start() awaits room_create; or the login raises
LoginReturns ==
    /\ boot.pc = "login"
    /\ \/ boot' = [boot EXCEPT !.logged_in = TRUE, !.callbacks = CALLBACKS,
                               !.event_task = "pending", !.pc = "room_create"]
       \/ boot' = StartRaises(boot, client, ErrText("login"))
    /\ UNCHANGED <<config, active_session, current_model, sessions, created,
                   handler, hist, client>>

\* a call of the room bootstrap returns and the next is awaited, or it raises,
\* which is logged; either way start() reaches sync_forever
BootstrapReturns ==
    /\ boot.pc \in {"room_create", "room_put_alias", "room_invite"}
    /\ \/ boot' = [boot EXCEPT !.pc = CASE boot.pc = "room_create" -> "room_put_alias"
                                        [] boot.pc = "room_put_alias" -> "room_invite"
                                        [] OTHER -> "syncing"]
       \/ boot' = [Log(boot, LOG_BOOTSTRAP) EXCEPT !.pc = "syncing"]
    /\ UNCHANGED <<config, active_session, current_model, sessions, created,
                   handler, hist, client>>

\* the monitor task runs for the first time: subscribe_events sends its
\* request, which is answered, or fails and ends the monitor
MonitorStarts ==
    /\ boot.event_task = "pending"
    /\ \/ /\ client' = [Uses(client, "subscribeEvents") EXCEPT !.gen = "open"]
          /\ boot' = [boot EXCEPT !.event_task = "running"]
       \/ /\ client' = [Uses(client, "subscribeEvents") EXCEPT
                           !.gen = "raised", !.exc = Some(ErrText("subscribeEvents"))]
          /\ boot' = MonitorFails(boot)
    /\ UNCHANGED <<config, active_session, current_model, sessions, created,
                   handler, hist>>

\* the server sends a line: the generator deals with it and the monitor's loop
\* body runs on the event it yields, if it yields one
MonitorLine ==
    /\ boot.event_task = "running"
    /\ client.gen = "open"
    /\ Len(client.lines) < MaxLines
    /\ \E line \in RunLines :
          LET cl == ReadLine([client EXCEPT !.lines = Append(@, line)], line)
              b  == IF Len(cl.yielded) > Len(client.yielded)
                    THEN MonitorBody(boot, cl.yielded[Len(cl.yielded)])
                    ELSE boot
          IN  /\ boot' = b
              /\ client' = IF b.event_task = "done"
                           THEN [cl EXCEPT !.gen = "closed"] ELSE cl
    /\ UNCHANGED <<config, active_session, current_model, sessions, created,
                   handler, hist>>

\* the server closes the stream and the monitor's loop ends, or the connection
\* breaks and the exception reaches the monitor
MonitorStreamEnds ==
    /\ boot.event_task = "running"
    /\ client.gen = "open"
    /\ \/ /\ client' = [client EXCEPT !.gen = "ended"]
          /\ boot' = [boot EXCEPT !.event_task = "done"]
       \/ /\ client' = [client EXCEPT !.gen = "raised",
                                      !.exc = Some(ErrText("subscribeEvents"))]
          /\ boot' = MonitorFails(boot)
    /\ UNCHANGED <<config, active_session, current_model, sessions, created,
                   handler, hist>>

\* the dispatcher calls handle_message for a message of the sync response
HandleWhileSyncing(t) ==
    /\ boot.pc = "syncing"
    /\ handler[t].pc = "idle"
    /\ \E event \in RunEvents :
          LET tk == BeginMessage([Entered("message") EXCEPT !.room = "!shell:hs",
                                                            !.event = event],
                                 config, active_session)
          IN  /\ Goes(t, tk)
              /\ current_model' = IF tk.stop = "resolved" /\ tk.pc # "typing_on"
                                  THEN ModelAfter(tk, current_model)
                                  ELSE current_model
    /\ UNCHANGED <<config, active_session, sessions, created, hist, client, boot>>

\* sync_forever raises: what a handler let through, or an interrupt or a
\* transport error while no handler is running; run_bot then runs stop()
SyncEnds ==
    /\ boot.pc = "syncing"
    /\ \/ /\ handler["main"].pc = "raised"
          /\ boot' = StartRaises(boot, client, handler["main"].exc[1])
       \/ /\ handler["main"].pc = "idle"
          /\ \E err \in SyncErrors : boot' = StartRaises(boot, client, err)
    /\ UNCHANGED <<config, active_session, current_model, sessions, created,
                   handler, hist, client>>

\* the cancelled monitor is resumed with CancelledError inside the stream,
\* ends, and stop(), which awaited it, goes on to close the client
CancelReaches ==
    /\ boot.event_task = "cancelling"
    /\ boot' = BeginClose(MonitorCancelled(boot), client)
    /\ client' = [client EXCEPT !.gen = "closed"]
    /\ UNCHANGED <<config, active_session, current_model, sessions, created,
                   handler, hist>>

\* close(): aclose() of the handle held returns and the handle is dropped
CloseReturns ==
    /\ boot.pc = "closing"
    /\ client' = Close(client)
    /\ boot' = Exits(boot)
    /\ UNCHANGED <<config, active_session, current_model, sessions, created,
                   handler, hist>>

NextRun ==
    \/ RunBot \/ HealthReturns \/ LoginReturns \/ BootstrapReturns
    \/ MonitorStarts \/ MonitorLine \/ MonitorStreamEnds
    \/ SyncEnds \/ CancelReaches \/ CloseReturns
    \/ \E t \in Serial :
          \/ HandleWhileSyncing(t) \/ DeliverReturns(t) \/ ErrorReplyReturns(t)
          \/ NextEvent(t)

\* the process from run_bot to its exit, with the monitor and the dispatcher
SpecRun == InitRun /\ [][NextRun]_vars

(* --------------------- the client's connection handle ------------------ *)

\* Calls made on the client, one after the other, before the calls stop.
MaxCalls == 5

\* the operations called on the client
ClientOps == {"healthCheck", "listSessions"}

\* an operation of the client is called and runs to its end
Operation ==
    /\ Len(client.uses) < MaxCalls
    /\ client._client = None => Len(client.handles) < MaxHandles
    /\ \E op \in ClientOps : client' = Uses(client, op)
    /\ UNCHANGED <<config, active_session, current_model, sessions, created,
                   handler, hist, boot>>

\* close() is called and runs to its end
CloseCall ==
    /\ Len(client.uses) < MaxCalls
    /\ client' = Close(client)
    /\ UNCHANGED <<config, active_session, current_model, sessions, created,
                   handler, hist, boot>>

NextClient == Operation \/ CloseCall

\* operations and close() called on one client, in any order
SpecClient == InitExec /\ [][NextClient]_vars

(* ------------------------- requests and timeouts ---------------------- *)

\* Requests sent by the client before the requests stop.
MaxRequests == 2

\* every operation of OpenCodeClient that sends a request
AllClientOps ==
    {"healthCheck", "getConfig", "listSessions", "getSessionStatus",
     "createSession", "getSession", "deleteSession", "abortSession",
     "getMessages", "sendMessage", "sendMessageAsync", "executeCommand",
     "listAgents", "listCommands", "subscribeEvents", "getDiff"}

\* an operation of the client is called and sends its request
SendsRequest ==
    /\ Len(client.requests) < MaxRequests
    /\ \E op \in AllClientOps : client' = Uses(client, op)
    /\ UNCHANGED <<config, active_session, current_model, sessions, created,
                   handler, hist, boot>>

\* requests of any operations, one after the other
SpecRequests == InitExec /\ [][SendsRequest]_vars

(* --------------------------- a long session list ---------------------- *)

\* Sessions the server holds when the sessions command is called.
MaxListed == 12

\* the id of the i-th session of a long list, longer than the 8 characters shown
ListedId(i) == NumText(i) \o <<"_", "s", "e", "s", "s", "i", "o", "n">>

\* a server list of n sessions of which the u-th (if any) has no title
Listed(n, u) ==
    [i \in 1..n |-> [id |-> ListedId(i),
                     title |-> IF i = u THEN <<>> ELSE SESSION_TITLE]]

SessionLists == {Listed(n, u) : n \in 0..MaxListed, u \in 0..MaxListed}

\* a bot whose server already holds a list of sessions
InitListed ==
    /\ config = [prefix |-> Slash, username |-> OwnUserId, allowed_users |-> <<>>,
                 unknown_command_reply |-> TRUE, typing_indicator |-> TRUE,
                 max_message_length |-> DefaultMaxMessageLength]
    /\ active_session = None
    /\ current_model = None
    /\ sessions \in SessionLists
    /\ created = 0
    /\ handler = [t \in Tasks |-> IdleTask]
    /\ hist = None
    /\ client = NewClient
    /\ boot = NotStarted

\* a caller awaits the execute of the sessions command
CallSessions(t) ==
    /\ handler[t].pc = "idle"
    /\ \E args \in {<<>>, <<"x">>} :
          Goes(t, BeginExecute([Entered("execute") EXCEPT !.cmd = Some(SESSIONS),
                                                          !.args = args],
                               config, active_session))
    /\ UNCHANGED <<config, active_session, current_model, sessions, created, hist,
                   client, boot>>

NextListed ==
    \E t \in Serial : CallSessions(t) \/ ListSessionsReturns(t) \/ Return(t)

\* the sessions command against servers holding up to MaxListed sessions
SpecListed == InitListed /\ [][NextListed]_vars

(* --------------------- creating and deleting a session ----------------- *)
(* create_session and delete_session called on the client directly, as the  *)
(* unit test does.  The server stores the title it is sent and answers a    *)
(* delete of a session it holds with true.  A title is optional text: None, *)
(* Some(<<>>) for the empty string, Some(text).                             *)

\* the titles create_session is called with
Titles == {None, Some(<<>>), Some(<<"Test Session">>), Some(SESSION_TITLE)}

\* the title the server gives a session created without one
ServerTitles == {None, Some(<<"New session">>)}

\* a request body that never carries the title
RequestTitleDropped(title) == None

\* "if title: body[\"title\"] = title": the title of the request body, None
\* when the body has none
RequestTitle(title) == IF title # None /\ title[1] # <<>> THEN title ELSE None

\* a caller awaits client.create_session(title=title)
CallCreateSession(t) ==
    /\ handler[t].pc = "idle"
    /\ \E title \in Titles :
          Goes(t, Await([Entered("create_session") EXCEPT !.title = title],
                        "create_direct",
                        CpCall("createSession", <<>>,
                               IF RequestTitle(title) = None THEN <<>>
                               ELSE RequestTitle(title)[1], "")))
    /\ UNCHANGED <<config, active_session, current_model, sessions, created, hist,
                   client, boot>>

\* the server creates the session, with the title of the request or one of
\* its own, and create_session returns the Session of the response; or the
\* request fails and create_session raises
CreateDirectReturns(t) ==
    /\ handler[t].pc = "create_direct"
    /\ \/ /\ created < MaxSessions
          /\ \E own \in ServerTitles :
                LET sent == RequestTitle(handler[t].title)
                    title == IF sent # None THEN sent ELSE own
                    id == SessionId(created + 1)
                IN  /\ sessions' = Append(sessions,
                                          [id |-> id,
                                           title |-> IF title = None THEN <<>>
                                                     ELSE title[1]])
                    /\ created' = created + 1
                    /\ Goes(t, [Back(t, TRUE) EXCEPT
                                   !.pc = "created",
                                   !.ret = Some([id |-> id, title |-> title])])
       \/ /\ Goes(t, Ends(Back(t, FALSE), Some(ErrText("createSession"))))
          /\ UNCHANGED <<sessions, created>>
    /\ UNCHANGED <<config, active_session, current_model, hist, client, boot>>

\* the caller awaits client.delete_session(session.id)
CallDeleteSession(t) ==
    /\ handler[t].pc = "created"
    /\ Goes(t, Await(handler[t], "delete_direct",
                     CpCall("deleteSession", handler[t].ret[1].id, <<>>, "")))
    /\ UNCHANGED <<config, active_session, current_model, sessions, created, hist,
                   client, boot>>

\* the server deletes the session and answers true, which delete_session
\* returns; or the request fails (the session is gone, the server is down)
\* and delete_session raises
DeleteDirectReturns(t) ==
    /\ handler[t].pc = "delete_direct"
    /\ LET sid == handler[t].calls[Len(handler[t].calls)].sid
       IN  \/ /\ HasSession(sessions, sid)
              /\ sessions' = SelectSeq(sessions, LAMBDA se : se.id # sid)
              /\ Goes(t, Ends([Back(t, TRUE) EXCEPT !.deleted = Some(TRUE)], None))
           \/ /\ Goes(t, Ends(Back(t, FALSE), Some(ErrText("deleteSession"))))
              /\ UNCHANGED sessions
    /\ UNCHANGED <<config, active_session, current_model, created, hist, client, boot>>

NextCreateDelete ==
    \/ \E t \in Serial :
          \/ CallCreateSession(t) \/ CreateDirectReturns(t)
          \/ CallDeleteSession(t) \/ DeleteDirectReturns(t) \/ Return(t)
    \/ ServerDelete

\* sessions created and deleted through the client, one call after the other
SpecCreateDelete == InitExec /\ [][NextCreateDelete]_vars

(* ------------------------------ tokenizing ---------------------------- *)

\* bodies that start with the prefix, with whitespace in every place
TokenBodies ==
    { Slash, Slash \o Sp, Slash \o <<"b">>, Slash \o <<"b">> \o Sp \o <<"x">>,
      Slash \o Sp \o <<"b">> \o Sp \o <<"x">>,
      Slash \o <<"b">> \o Sp \o Sp \o <<"x">>,
      Slash \o <<"b">> \o Sp \o <<"x">> \o Sp,
      Slash \o <<"B">> \o <<"\t">> \o <<"x">> \o Sp \o <<"y">>,
      Slash \o <<"Z","z">>, Slash \o <<"z">> \o Sp \o <<"x">> }

\* the chat transport delivers a message that starts with the prefix
HandleToken(t) ==
    /\ handler[t].pc = "idle"
    /\ \E room \in Rooms, body \in TokenBodies :
          LET event == [sender |-> Some(Alice), match_raises |-> FALSE, body |-> body]
              tk == BeginMessage([Entered("message") EXCEPT !.room = room, !.event = event],
                                 config, active_session)
          IN  Goes(t, tk)
    /\ UNCHANGED <<config, active_session, current_model, sessions, created, hist,
                   client, boot>>

NextTokens ==
    \E t \in Serial :
        \/ HandleToken(t) \/ UnknownReplyReturns(t) \/ GetSessionReturns(t)
        \/ CreateSessionReturns(t) \/ SendAsyncReturns(t) \/ DeliverReturns(t)
        \/ ErrorReplyReturns(t) \/ NextEvent(t)

\* messages that start with the prefix, handled one after the other
SpecTokens == InitRegistry /\ [][NextTokens]_vars

(* ------------------- one build or plan after another ------------------ *)

\* a caller awaits the execute of a build or plan command with a task
\* description; hist still tells how the command before it went
CallStart(t) ==
    /\ handler[t].pc = "idle"
    /\ \E c \in {BUILD, PLAN} :
          Goes(t, BeginExecute([Entered("execute") EXCEPT !.cmd = Some(c),
                                                          !.args = <<"x">>],
                               config, active_session))
    /\ UNCHANGED <<config, active_session, current_model, sessions, created, hist,
                   client, boot>>

\* the command has returned its result, which hist keeps with its calls
ReturnStart(t) ==
    /\ handler[t].pc \in {"done", "raised"}
    /\ handler[t].kind = "execute"
    /\ Goes(t, IdleTask)
    /\ hist' = Some([pre_active |-> handler[t].pre_active, ret |-> handler[t].result,
                     exc |-> handler[t].exc, calls |-> handler[t].calls])
    /\ UNCHANGED <<config, active_session, current_model, sessions, created,
                   client, boot>>

NextRetry ==
    \/ \E t \in Serial :
          \/ CallStart(t) \/ GetSessionReturns(t) \/ CreateSessionReturns(t)
          \/ SendAsyncReturns(t) \/ ReturnStart(t)
    \/ ServerDelete

\* build and plan commands executed one after the other
SpecRetry == InitExec /\ [][NextRetry]_vars

(* ---------------------- messages from several rooms -------------------- *)

\* the commands sent from the rooms: a task for the build agent, an abort
\* of whatever is running, and a listing of the agents
RoomBodies ==
    { Slash \o <<"b">> \o Sp \o <<"x">>, Slash \o <<"s","t","o","p">>, Slash \o <<"a">> }

\* the room whose messages each task handles
RoomOf(t) == IF t = "main" THEN "!shell:hs" ELSE "!other:hs"

\* handle_message is entered for a command sent from the task's room,
\* whatever the other task is doing
HandleInRoom(t) ==
    /\ handler[t].pc = "idle"
    /\ \E body \in RoomBodies :
          LET event == [sender |-> Some(Alice), match_raises |-> FALSE, body |-> body]
              tk == BeginMessage([Entered("message") EXCEPT !.room = RoomOf(t),
                                                            !.event = event],
                                 config, active_session)
          IN  Goes(t, tk)
    /\ UNCHANGED <<config, active_session, current_model, sessions, created, hist,
                   client, boot>>

\* the bot with the typing indicator on and a limit that splits its results
InitRooms ==
    InitWith([prefix |-> Slash, username |-> OwnUserId, allowed_users |-> <<>>,
              unknown_command_reply |-> TRUE, typing_indicator |-> TRUE,
              max_message_length |-> 2 * MaxChunk])

\* the call task t is suspended on returns or raises
StepOf(t) ==
    \/ TypingOnReturns(t) \/ GetSessionReturns(t) \/ CreateSessionReturns(t)
    \/ SendAsyncReturns(t) \/ AbortStatusReturns(t)
    \/ AbortSessionReturns(t) \/ ListAgentsReturns(t) \/ DeliverReturns(t)
    \/ ErrorReplyReturns(t) \/ TypingOffReturns(t)

NextRooms ==
    \E t \in Tasks : HandleInRoom(t) \/ StepOf(t)

\* a command from each room, the two in progress at once; every call a task
\* awaits returns or raises in the end
SpecRooms ==
    InitRooms /\ [][NextRooms]_vars /\ \A t \in Tasks : WF_vars(StepOf(t))

(* --------------------- first calls made at the same time --------------- *)
(* An operation of the client awaits _get_client, which has no await of its *)
(* own and so runs to its return without giving way to another task, and    *)
(* then awaits its request on the handle it was given; there it is          *)
(* suspended and another task runs.                                         *)

\* a task calls an operation of the client: _get_client returns the handle,
\* kept in the local variable client, and the request is sent on it
CallOperation(t) ==
    /\ handler[t].pc = "idle"
    /\ Len(client.uses) < MaxCalls
    /\ \E op \in ClientOps :
          /\ client' = Uses(client, op)
          /\ Goes(t, Await([Entered("operation") EXCEPT !.ret = client'._client],
                           "request", CpCall(op, <<>>, <<>>, "")))
    /\ UNCHANGED <<config, active_session, current_model, sessions, created, hist, boot>>

\* the request of the operation is answered, or fails, and the operation ends
RequestReturns(t) ==
    /\ handler[t].pc = "request"
    /\ \E ok \in BOOLEAN : Goes(t, [Back(t, ok) EXCEPT !.pc = "idle"])
    /\ UNCHANGED <<config, active_session, current_model, sessions, created, hist,
                   client, boot>>

NextFirstUse == \E t \in Tasks : CallOperation(t) \/ RequestReturns(t)

\* two tasks calling operations on a client that starts without a handle
SpecFirstUse == InitExec /\ [][NextFirstUse]_vars

(* ------------------------------ properties ---------------------------- *)

\* the calls of a task among the operations ops, in the order it issued them
CallsOf(tk, ops) == SelectSeq(tk.calls, LAMBDA c : c.op \in ops)

OpsOf(calls) == [i \in 1..Len(calls) |-> calls[i].op]

TextsOf(calls) == [i \in 1..Len(calls) |-> calls[i].text]

AllOk(calls) == \A i \in 1..Len(calls) : calls[i].ret = "ok"

AllSpace(s) == \A i \in 1..Len(s) : s[i] \in {" ", "\t", "\n"}

IsPrefix(p, s) == Len(p) <= Len(s) /\ SubSeq(s, 1, Len(p)) = p

\* a and b are the same text up to the case of their letters
SameLetters(a, b) ==
    /\ Len(a) = Len(b)
    /\ \A i \in 1..Len(a) :
          \/ a[i] = b[i]
          \/ \E j \in 1..26 : {a[i], b[i]} = {UpperCase[j], LowerCase[j]}

\* the sender of the task's event passes the sender guards and the allow-list
Authorized(tk) ==
    /\ tk.event.sender # None
    /\ tk.event.sender[1] \notin {"", OwnUserId}
    /\ \/ config.allowed_users = <<>>
       \/ \E i \in 1..Len(config.allowed_users) :
             config.allowed_users[i] = tk.event.sender[1]

\* body is the prefix, then a word that is no name and no alias in any letter
\* case, then nothing or whitespace
UnknownToken(body) ==
    \E k \in 2..Len(body) :
        /\ body[1] = "/"
        /\ \A i \in 2..k : ~IsSpace(body[i])
        /\ k = Len(body) \/ IsSpace(body[k + 1])
        /\ \A c \in 1..Len(ALL_COMMANDS) :
              \A key \in KeysOf(c) : ~SameLetters(SubSeq(body, 2, k), key)

\* the text of body after its first word and the whitespace that follows it
ArgumentOf(body) ==
    IF \E k \in 1..Len(body) : IsSpace(body[k])
    THEN LET k == CHOOSE k \in 1..Len(body) :
                      IsSpace(body[k]) /\ \A i \in 1..(k - 1) : ~IsSpace(body[i])
         IN  LStrip(SubSeq(body, k + 1, Len(body)))
    ELSE <<>>

\* C1: of two successive get_or_create_session calls, the first, from an empty
\* binding and with its call returning, issues exactly one createSession and no
\* getSession; the second, when the first returned a session and its own calls
\* all return, issues exactly one getSession and no createSession and returns
\* the session id the first returned (so N calls create one session).
C1_SuccessiveCallsShareOneSession ==
    \A t \in Tasks :
        LET tk == handler[t]
        IN  (tk.kind = "get_or_create" /\ hist # None) =>
               /\ (hist[1].pre_active = None /\ AllOk(hist[1].calls))
                     => OpsOf(hist[1].calls) = <<"createSession">>
               /\ (hist[1].ret # None /\ tk.pc = "done" /\ AllOk(tk.calls))
                     => /\ tk.ret # None
                        /\ tk.ret[1].id = hist[1].ret[1].id
                        /\ OpsOf(tk.calls) = <<"getSession">>

\* C1 witness: a second call has returned after a first one that started from
\* an empty binding, every call of both having returned.
C1_Witness ==
    \E t \in Tasks :
        /\ handler[t].kind = "get_or_create"
        /\ handler[t].pc = "done"
        /\ AllOk(handler[t].calls)
        /\ hist # None
        /\ hist[1].pre_active = None
        /\ hist[1].ret # None

\* C2: when the binding holds S and getSession(S.id) raises, get_or_create_session
\* clears the binding, issues exactly one createSession, and (createSession
\* returning) returns the new session, the binding holding its id, which is not
\* S's; if createSession raises too the binding stays empty.
C2_StaleBindingIsReplaced ==
    \A t \in Tasks :
        LET tk == handler[t]
        IN  (/\ tk.kind = "get_or_create"
             /\ tk.pre_active # None
             /\ Len(tk.calls) >= 1
             /\ tk.calls[1].op = "getSession"
             /\ tk.calls[1].ret = "raised") =>
               /\ tk.calls[1].sid = tk.pre_active[1].id
               /\ OpsOf(tk.calls) = <<"getSession", "createSession">>
               /\ tk.pc \in {"create_session", "done", "raised"}
               /\ tk.pc = "create_session" => active_session = None
               /\ tk.pc = "raised" => active_session = None
               /\ tk.pc = "done" =>
                     /\ tk.calls[2].ret = "ok"
                     /\ tk.ret # None
                     /\ tk.ret[1].id = SessionId(created)
                     /\ tk.ret[1].id # tk.pre_active[1].id
                     /\ active_session = tk.ret

\* C2 witness: a call that found its binding stale has returned a session.
C2_Witness ==
    \E t \in Tasks :
        /\ handler[t].kind = "get_or_create"
        /\ handler[t].pre_active # None
        /\ handler[t].pc = "done"
        /\ handler[t].calls[1].ret = "raised"

\* C3: a build or plan command with non-blank arguments, handled with an empty
\* binding, issues createSession first and once; when that returns it issues
\* exactly one sendMessageAsync, to the created session, with the argument text
\* of the body as content and the agent of the command; when that returns too
\* the result is a success whose message shows the first eight characters of
\* the id and whose data is the whole id.  When createSession raises nothing is
\* sent.
C3_StartCreatesThenSends ==
    \A t \in Tasks :
        LET tk == handler[t]
            cp == CallsOf(tk, ControlPlaneOps)
        IN  (/\ tk.kind = "message"
             /\ tk.cmd \in {Some(BUILD), Some(PLAN)}
             /\ ~AllSpace(ArgumentOf(tk.event.body))
             /\ tk.pre_active = None) =>
               /\ Len(cp) <= 2
               /\ Len(cp) >= 1 => cp[1].op = "createSession"
               /\ tk.result # None => Len(cp) >= 1 /\ cp[Len(cp)].ret # "pending"
               /\ Len(cp) = 1 => cp[1].ret # "ok"
               /\ Len(cp) = 2 =>
                     /\ cp[1].ret = "ok"
                     /\ cp[2].op = "sendMessageAsync"
                     /\ active_session # None
                     /\ cp[2].sid = active_session[1].id
                     /\ cp[2].sid = SessionId(created)
                     /\ cp[2].text = ArgumentOf(tk.event.body)
                     /\ cp[2].agent = (IF tk.cmd = Some(BUILD) THEN "build" ELSE "plan")
                     /\ cp[2].ret = "ok" =>
                           /\ tk.result # None
                           /\ tk.result[1].success
                           /\ Contains(tk.result[1].message, Take(cp[2].sid, 8))
                           /\ tk.result[1].data = Some(cp[2].sid)

\* C3 witness: a plan command handled from an empty binding has started its task.
C3_Witness ==
    \E t \in Tasks :
        /\ handler[t].kind = "message"
        /\ handler[t].cmd = Some(PLAN)
        /\ handler[t].pre_active = None
        /\ handler[t].result # None
        /\ handler[t].result[1].success
        /\ Len(CallsOf(handler[t], {"sendMessageAsync"})) = 1

\* C4: build and plan executed with empty or whitespace-only arguments return
\* at once a result with success false and a message holding a usage line,
\* issue no call and leave the binding as it was.
C4_BlankArgumentsAreRefused ==
    \A t \in Tasks :
        LET tk == handler[t]
        IN  (/\ tk.kind = "execute"
             /\ tk.cmd \in {Some(BUILD), Some(PLAN)}
             /\ AllSpace(tk.args)) =>
               /\ tk.pc = "done"
               /\ tk.result # None
               /\ ~tk.result[1].success
               /\ Contains(tk.result[1].message, <<"Usage: ">>)
               /\ tk.calls = <<>>
               /\ active_session = tk.pre_active

\* C4 witness: plan has been executed with arguments of a space and a tab,
\* while the binding held a session.
C4_Witness ==
    \E t \in Tasks :
        /\ handler[t].kind = "execute"
        /\ handler[t].cmd = Some(PLAN)
        /\ handler[t].args = <<" ", "\t">>
        /\ handler[t].pc = "done"
        /\ active_session # None

\* C5: under a non-empty allow-list, the handling of a message whose sender is
\* not on the list issues no call at all, to the chat transport or to the
\* control-plane, and changes neither the binding nor the model.
C5_UnlistedSenderGetsNothing ==
    \A t \in Tasks :
        LET tk == handler[t]
        IN  (/\ tk.kind = "message"
             /\ tk.event.sender # None
             /\ config.allowed_users # <<>>
             /\ \A i \in 1..Len(config.allowed_users) :
                   config.allowed_users[i] # tk.event.sender[1]) =>
               /\ tk.calls = <<>>
               /\ tk.pc = "done"
               /\ tk.result = None
               /\ active_session = tk.pre_active
               /\ current_model = tk.pre_model

\* C5 witness: a command from a sender outside a non-empty allow-list has been
\* handled.
C5_Witness ==
    \E t \in Tasks :
        /\ handler[t].kind = "message"
        /\ handler[t].event.sender = Some(Mallory)
        /\ handler[t].event.body = Slash \o <<"h">>
        /\ config.allowed_users = <<Alice>>
        /\ handler[t].pc = "done"

\* C6: for a message from an authorized sender that starts with the prefix and
\* whose command word is no name and no alias, the dispatcher sends exactly one
\* reply holding "Unknown command" to the room of the message when
\* unknown_command_reply is set and nothing when it is not; either way it
\* executes no command.
C6_UnknownCommandReply ==
    \A t \in Tasks :
        LET tk == handler[t]
        IN  (tk.kind = "message" /\ Authorized(tk) /\ UnknownToken(tk.event.body)) =>
               /\ tk.cmd = None
               /\ tk.result = None
               /\ active_session = tk.pre_active
               /\ current_model = tk.pre_model
               /\ IF config.unknown_command_reply
                  THEN /\ Len(tk.calls) = 1
                       /\ tk.calls[1].op = "send_text_message"
                       /\ tk.calls[1].room = tk.room
                       /\ Contains(tk.calls[1].text, <<"Unknown command">>)
                       /\ tk.pc \in {"unknown_reply", "done", "raised"}
                  ELSE tk.calls = <<>> /\ tk.pc = "done"

\* C6 witness: the reply to an unknown command has been sent and has returned.
C6_Witness ==
    \E t \in Tasks :
        /\ handler[t].kind = "message"
        /\ Authorized(handler[t])
        /\ UnknownToken(handler[t].event.body)
        /\ config.unknown_command_reply
        /\ handler[t].pc = "done"
        /\ Len(handler[t].calls) = 1
        /\ handler[t].calls[1].ret = "ok"

\* C7: _send_result called with a message of length L under a limit
\* max_message_length >= 1 sends, to the room it was given, one call when
\* L <= max and ceil(L / max) calls when L > max; the calls carry the message
\* in order, so that the texts sent so far are always a prefix of it and, when
\* every send has returned, their concatenation is the message.
C7_DeliveryInParts ==
    \A t \in Tasks :
        LET tk == handler[t]
        IN  tk.kind = "send_result" =>
               LET message == tk.result[1].message
                   L == Len(message)
                   max == config.max_message_length
                   n == IF L <= max THEN 1 ELSE (L + max - 1) \div max
                   sent == Concat(TextsOf(tk.calls))
               IN  /\ \A i \in 1..Len(tk.calls) :
                         /\ tk.calls[i].op = "send_markdown_message"
                         /\ tk.calls[i].room = tk.room
                         /\ Len(tk.calls[i].text) <= max
                   /\ Len(tk.calls) <= n
                   /\ IsPrefix(sent, message)
                   /\ tk.pc = "done" => Len(tk.calls) = n /\ sent = message

\* C7 witness: a message has been delivered whole in three parts, the last one
\* shorter than the limit.
C7_Witness ==
    \E t \in Tasks :
        /\ handler[t].kind = "send_result"
        /\ handler[t].pc = "done"
        /\ Len(handler[t].calls) = 3
        /\ Len(handler[t].result[1].message) % config.max_message_length # 0

\* C8: the registry holds every name and every alias of every command, each
\* under the one instance of its own command; and a message that is the prefix
\* followed by a name or an alias typed in any letter case is resolved to that
\* instance.
C8_EveryNameAndAliasResolves ==
    /\ \A c \in 1..Len(ALL_COMMANDS) :
          \A key \in KeysOf(c) : DictGet(Commands, key) = Some(c)
    /\ \A t \in Tasks :
          LET tk == handler[t]
          IN  tk.kind = "message" =>
                 \A c \in 1..Len(ALL_COMMANDS) :
                    \A key \in KeysOf(c) :
                       SameLetters(DropFirst(tk.event.body, 1), key)
                          => tk.stop = "resolved" /\ tk.cmd = Some(c)

\* C8 witness: the alias review typed in mixed case has been resolved to plan.
C8_Witness ==
    \E t \in Tasks :
        /\ handler[t].kind = "message"
        /\ handler[t].event.body = Slash \o <<"R","e","V","i","E","w">>
        /\ handler[t].cmd = Some(PLAN)

\* C9 as stated: whenever a control-plane call has raised during the execute
\* of build, plan, status, sessions, abort or agents, execute returns a result
\* with success false whose message holds the error text of a call that raised.
C9_AnyFailureFailsTheCommand ==
    \A t \in Tasks :
        LET tk == handler[t]
        IN  (/\ tk.kind = "execute"
             /\ tk.pc \in {"done", "raised"}
             /\ \E i \in 1..Len(tk.calls) : tk.calls[i].ret = "raised") =>
               /\ tk.pc = "done"
               /\ tk.result # None
               /\ ~tk.result[1].success
               /\ \E i \in 1..Len(tk.calls) :
                     /\ tk.calls[i].ret = "raised"
                     /\ Contains(tk.result[1].message, ErrText(tk.calls[i].op))

\* C9 amended: execute never raises; and whenever a control-plane call other
\* than the getSession that verifies the binding raised, it was the last call
\* of execute, which returns a result with success false whose message holds
\* the error text.  (A getSession that raises is followed by createSession.)
C9_FailureBecomesFailedResult ==
    \A t \in Tasks :
        LET tk == handler[t]
        IN  tk.kind = "execute" =>
               /\ tk.pc # "raised"
               /\ tk.pc = "done" => tk.result # None
               /\ \A i \in 1..Len(tk.calls) :
                     (tk.calls[i].ret = "raised") =>
                        IF tk.calls[i].op = "getSession"
                        THEN Len(tk.calls) > i /\ tk.calls[i + 1].op = "createSession"
                        ELSE /\ i = Len(tk.calls)
                             /\ tk.pc = "done"
                             /\ ~tk.result[1].success
                             /\ Contains(tk.result[1].message, ErrText(tk.calls[i].op))

\* C9 witness: abort without arguments has found a running session and its
\* abortSession has raised.
C9_Witness ==
    \E t \in Tasks :
        /\ handler[t].kind = "execute"
        /\ handler[t].cmd = Some(ABORT)
        /\ handler[t].pc = "done"
        /\ Len(handler[t].calls) = 2
        /\ handler[t].calls[2].op = "abortSession"
        /\ handler[t].calls[2].ret = "raised"

\* C10 as stated: when a send of the result of a resolved command has raised,
\* handle_message ends by returning, not by raising, and the error reply has
\* been sent to the room.
C10_HandleMessageNeverRaises ==
    \A t \in Tasks :
        LET tk == handler[t]
        IN  (/\ tk.kind = "message"
             /\ tk.pc \in {"done", "raised"}
             /\ \E i \in 1..Len(tk.calls) :
                   /\ tk.calls[i].op = "send_markdown_message"
                   /\ tk.calls[i].ret = "raised") =>
               /\ tk.pc = "done"
               /\ \E j \in 1..Len(tk.calls) :
                     /\ tk.calls[j].op = "send_text_message"
                     /\ tk.calls[j].room = tk.room
                     /\ tk.calls[j].ret = "ok"
                     /\ Contains(tk.calls[j].text, <<"Error executing command: ">>)

\* the typing indicator as the calls of the task that returned have left it
IndicatorOn(tk) ==
    LET ty == SelectSeq(tk.calls, LAMBDA c : c.op = "room_typing" /\ c.ret = "ok")
    IN  Len(ty) > 0 /\ ty[Len(ty)].on

\* a resolved command handled with the typing indicator enabled
TypedCommand(tk) ==
    tk.kind = "message" /\ tk.stop = "resolved" /\ config.typing_indicator

\* C11 as stated: with the typing indicator enabled, once the handling of a
\* resolved command has finished, by returning or by raising, the indicator is
\* not on.
C11_IndicatorNeverLeftOn ==
    \A t \in Tasks :
        (TypedCommand(handler[t]) /\ handler[t].pc \in {"done", "raised"})
            => ~IndicatorOn(handler[t])

\* C11 amended: with the typing indicator enabled, the handling of a resolved
\* command first calls room_typing(on) for the room and executes the command
\* only after that call returned; if that call raises nothing else is called.
\* Otherwise, on every path (delivery done, execute or delivery raising, the
\* error reply raising) the last call of the handling, and its only turn-off,
\* is room_typing(off) for the room, and the indicator is off when that call
\* returns; it stays on only when that call itself raises.
C11_IndicatorTurnedOffOnEveryPath ==
    \A t \in Tasks :
        LET tk == handler[t]
            n == Len(tk.calls)
        IN  TypedCommand(tk) =>
               /\ n >= 1
               /\ tk.calls[1].op = "room_typing"
               /\ tk.calls[1].on
               /\ tk.calls[1].room = tk.room
               /\ (n > 1 \/ tk.result # None) => tk.calls[1].ret = "ok"
               /\ tk.calls[1].ret = "raised" => n = 1 /\ tk.pc = "raised"
               /\ \A i \in 2..n :
                     tk.calls[i].op = "room_typing" =>
                        /\ ~tk.calls[i].on
                        /\ tk.calls[i].room = tk.room
                        /\ i = n
                        /\ tk.pc \in {"typing_off", "done", "raised"}
               /\ (tk.calls[1].ret = "ok" /\ tk.pc \in {"done", "raised"}) =>
                     /\ n >= 3
                     /\ tk.calls[n].op = "room_typing"
                     /\ ~tk.calls[n].on
                     /\ tk.calls[n].ret = "ok" => ~IndicatorOn(tk)

\* C11 witness: a delivery has raised, the error reply has raised too, and the
\* indicator has been turned off all the same.
C11_Witness ==
    \E t \in Tasks :
        /\ TypedCommand(handler[t])
        /\ handler[t].pc = "raised"
        /\ \E i \in 1..Len(handler[t].calls) :
              /\ handler[t].calls[i].op = "send_text_message"
              /\ handler[t].calls[i].ret = "raised"
        /\ handler[t].calls[Len(handler[t].calls)].ret = "ok"
        /\ ~IndicatorOn(handler[t])

\* s is sid with whitespace, and nothing else, around it
Trimmed(s, sid) ==
    /\ sid # <<>>
    /\ ~IsSpace(sid[1])
    /\ ~IsSpace(sid[Len(sid)])
    /\ \E i \in 0..Len(s) :
          /\ i + Len(sid) <= Len(s)
          /\ SubSeq(s, i + 1, i + Len(sid)) = sid
          /\ AllSpace(SubSeq(s, 1, i))
          /\ AllSpace(SubSeq(s, i + Len(sid) + 1, Len(s)))

\* the entry of the status map that comes first among the running ones
FirstRunning(statuses, i) ==
    /\ statuses[i].status = "running"
    /\ \A j \in 1..(i - 1) : statuses[j].status # "running"

\* C13: abort executed without a session id asks for the status map first;
\* when the map holds a running session it then calls abortSession once, on
\* the first running session of the map, and when it holds none it returns
\* success false and calls nothing more.  Executed with a session id it calls
\* abortSession on that id, trimmed, and nothing else.
C13_AbortPicksFirstRunning ==
    \A t \in Tasks :
        LET tk == handler[t]
            n == Len(tk.calls)
        IN  (tk.kind = "execute" /\ tk.cmd = Some(ABORT)) =>
               IF AllSpace(tk.args)
               THEN /\ n >= 1
                    /\ tk.calls[1].op = "getSessionStatus"
                    /\ tk.calls[1].ret = "raised" => n = 1
                    /\ tk.calls[1].ret = "ok" =>
                          /\ tk.statuses # None
                          /\ IF \E i \in 1..Len(tk.statuses[1]) :
                                   tk.statuses[1][i].status = "running"
                             THEN /\ n = 2
                                  /\ tk.calls[2].op = "abortSession"
                                  /\ \E i \in 1..Len(tk.statuses[1]) :
                                        /\ FirstRunning(tk.statuses[1], i)
                                        /\ tk.calls[2].sid = tk.statuses[1][i].id
                             ELSE /\ n = 1
                                  /\ tk.pc = "done"
                                  /\ ~tk.result[1].success
               ELSE /\ n = 1
                    /\ tk.calls[1].op = "abortSession"
                    /\ Trimmed(tk.args, tk.calls[1].sid)

\* C13 witness: abort without an id has aborted the first of two running
\* sessions, which is not the first entry of the map.
C13_Witness ==
    \E t \in Tasks :
        /\ handler[t].kind = "execute"
        /\ handler[t].cmd = Some(ABORT)
        /\ handler[t].args = <<>>
        /\ handler[t].pc = "done"
        /\ handler[t].result[1].success
        /\ handler[t].statuses # None
        /\ Len(Running(handler[t].statuses[1])) = 2
        /\ handler[t].calls[2].sid = SessionId(3)

\* the number of places of s where sub stands
CountOf(s, sub) ==
    Cardinality({ i \in 1..(Len(s) - Len(sub) + 1) :
                    SubSeq(s, i, i + Len(sub) - 1) = sub })

\* C14 as stated: in the result of help executed without arguments each of
\* the eight commands has exactly one line.
C14_HelpListsEachCommandOnce ==
    \A t \in Tasks :
        LET tk == handler[t]
        IN  (/\ tk.kind = "execute"
             /\ tk.cmd = Some(HELP)
             /\ AllSpace(tk.args)
             /\ tk.pc = "done") =>
               /\ tk.result[1].success
               /\ \A c \in 1..Len(ALL_COMMANDS) :
                     CountOf(tk.result[1].message,
                             <<"* /">> \o ALL_COMMANDS[c].name \o <<" - ">>) = 1

\* C15: the model command issues no call at all and returns success true at
\* once; with blank arguments its message lists the four known model names and
\* the current-model preference is what it was, with other arguments the
\* preference is the argument trimmed.  The binding is untouched either way.
C15_ModelCommandIsLocal ==
    \A t \in Tasks :
        LET tk == handler[t]
        IN  (tk.kind = "execute" /\ tk.cmd = Some(MODEL)) =>
               /\ tk.calls = <<>>
               /\ tk.pc = "done"
               /\ tk.result # None
               /\ tk.result[1].success
               /\ active_session = tk.pre_active
               /\ IF AllSpace(tk.args)
                  THEN /\ current_model = tk.pre_model
                       /\ \A name \in {"claude-opus-4.5", "claude-sonnet-4.5",
                                       "gemini-3-pro-high", "gemini-3-flash"} :
                             Contains(tk.result[1].message, <<name>>)
                  ELSE /\ current_model # None
                       /\ Trimmed(tk.args, current_model[1])
                       /\ Contains(tk.result[1].message, current_model[1])

\* C15 witness: the model command has set the preference from an argument with
\* whitespace around it, replacing an earlier preference.
C15_Witness ==
    \E t \in Tasks :
        /\ handler[t].kind = "execute"
        /\ handler[t].cmd = Some(MODEL)
        /\ handler[t].args = <<" ", "x", " ">>
        /\ handler[t].pre_model = Some(S_build)
        /\ current_model = Some(<<"x">>)

\* C16: every sendMessageAsync request of a build or plan command is the
\* request its command, the argument text of its message and the session it
\* was given determine: it carries no model, whatever the current-model
\* preference is when it is issued, so that runs differing only in the
\* preference issue the same requests.
C16_PreferenceNeverSent ==
    \A t \in Tasks :
        LET tk == handler[t]
        IN  tk.kind = "message" =>
               \A i \in 1..Len(tk.calls) :
                  tk.calls[i].op = "sendMessageAsync" =>
                     /\ tk.cmd \in {Some(BUILD), Some(PLAN)}
                     /\ tk.session # None
                     /\ tk.calls[i] =
                           [op |-> "sendMessageAsync", room |-> "",
                            sid |-> tk.session[1].id,
                            text |-> ArgumentOf(tk.event.body),
                            agent |-> IF tk.cmd = Some(BUILD) THEN "build" ELSE "plan",
                            model |-> None, on |-> FALSE, ret |-> tk.calls[i].ret]

\* C16 witness: a build command has sent its task while a preference set by
\* the model command was in force.
C16_Witness ==
    \E t \in Tasks :
        /\ handler[t].kind = "message"
        /\ handler[t].cmd = Some(BUILD)
        /\ current_model = Some(ModelName)
        /\ handler[t].pre_model = Some(ModelName)
        /\ \E i \in 1..Len(handler[t].calls) :
              /\ handler[t].calls[i].op = "sendMessageAsync"
              /\ handler[t].calls[i].ret = "ok"

\* the control-plane calls of a task
Cp(tk) == CallsOf(tk, ControlPlaneOps)

\* the task found the binding empty and its createSession has returned
CreatedOwn(tk) ==
    /\ tk.kind = "message"
    /\ tk.pre_active = None
    /\ Len(Cp(tk)) = 2
    /\ Cp(tk)[1].op = "createSession"
    /\ Cp(tk)[1].ret = "ok"

\* C17: the binding holds at most one session; and when two build or plan
\* commands in progress at once have both found the binding empty, each issues
\* its own createSession, and when both have returned two sessions exist, each
\* command sends its message to the session it created, the two being
\* different, and the binding holds the one created last.
C17_EmptyBindingRace ==
    /\ Len(active_session) <= 1
    /\ \A t \in Tasks :
          (handler[t].kind = "message" /\ handler[t].pre_active = None
              /\ Len(Cp(handler[t])) >= 1)
             => Cp(handler[t])[1].op = "createSession"
    /\ \A t1, t2 \in Tasks :
          (t1 # t2 /\ CreatedOwn(handler[t1]) /\ CreatedOwn(handler[t2])) =>
             /\ created >= 2
             /\ Cp(handler[t1])[2].op = "sendMessageAsync"
             /\ Cp(handler[t2])[2].op = "sendMessageAsync"
             /\ Cp(handler[t1])[2].sid # Cp(handler[t2])[2].sid
             /\ HasSession(sessions, Cp(handler[t1])[2].sid)
             /\ HasSession(sessions, Cp(handler[t2])[2].sid)
             /\ Cp(handler[t1])[2].text = ArgumentOf(handler[t1].event.body)
             /\ active_session # None
             /\ active_session[1].id \in {Cp(handler[t1])[2].sid, Cp(handler[t2])[2].sid}
             /\ active_session[1].id = SessionId(created)

\* C17 witness: two commands entered with the binding empty have each created
\* a session and have each had their message accepted.
C17_Witness ==
    /\ CreatedOwn(handler["main"])
    /\ CreatedOwn(handler["other"])
    /\ Cp(handler["main"])[2].ret = "ok"
    /\ Cp(handler["other"])[2].ret = "ok"
    /\ Len(sessions) = 2

\* the monitor task has ended, or was cancelled before it ever ran
MonitorOver(b) == b.event_task \in {"done", "cancelled"}

\* C18: a cancelled monitor ends without a log entry and without an error for
\* stop(), which goes on to close the client; a monitor that ends on its own
\* either saw the stream close or logged the exception that ended it; and once
\* the monitor has ended it stays ended, and no further line is read and no
\* further event yielded, whatever the dispatcher does.
C18_MonitorEndsOnceAndForAll ==
    [][ /\ boot.event_task = "cancelling" /\ boot'.event_task # "cancelling"
           => /\ boot'.event_task = "done"
              /\ boot'.log = boot.log
              /\ boot'.exc = boot.exc
              /\ boot'.pc \in {"closing", "exited"}
        /\ boot.event_task \in {"pending", "running"} /\ boot'.event_task = "done"
           => \/ client'.gen = "ended" /\ boot'.log = boot.log
              \/ boot'.log = Append(boot.log, LOG_MONITOR)
        /\ MonitorOver(boot)
           => /\ boot'.event_task = boot.event_task
              /\ client'.lines = client.lines
              /\ client'.yielded = client.yielded
              /\ client'.gen = client.gen ]_vars

\* C18 witness: the monitor ended on the exception an event raised in its
\* loop body, which was logged, with
\* room for more lines of the stream, and the dispatcher has since taken a
\* message and is delivering its result.
C18_Witness ==
    /\ boot.event_task = "done"
    /\ boot.pc = "syncing"
    /\ LOG_MONITOR \in {boot.log[i] : i \in 1..Len(boot.log)}
    /\ client.gen = "closed"
    /\ Len(client.lines) < MaxLines
    /\ handler["main"].pc = "deliver"

\* C18 witness of the other ending: the monitor was cancelled by stop() while
\* it waited on the stream, ended without a log entry, and stop() went on.
C18_WitnessCancelled ==
    /\ boot.event_task = "done"
    /\ boot.pc = "exited"
    /\ client.gen = "closed"
    /\ client.lines # <<>>
    /\ LOG_MONITOR \notin {boot.log[i] : i \in 1..Len(boot.log)}

\* the health check of start() has failed
HealthFailed == LOG_HEALTH \in {boot.log[i] : i \in 1..Len(boot.log)}

\* C20: once the health check has failed, the bot has not logged in, has
\* registered no callback, has started no monitor, has opened no event stream
\* and has handled no message; run_bot is in stop(), closing the client, or
\* the process has exited, and then the client holds no handle, the handle
\* the health check used is closed and the exit status is 1.
C20_HealthFailureStopsTheStart ==
    HealthFailed =>
        /\ ~boot.logged_in
        /\ boot.callbacks = <<>>
        /\ boot.event_task = "none"
        /\ client.gen = "none"
        /\ handler["main"] = IdleTask
        /\ boot.exc = Some(ErrText("healthCheck"))
        /\ boot.pc \in {"closing", "exited"}
        /\ boot.pc = "closing" => client._client # None /\ boot.exit = None
        /\ boot.pc = "exited" =>
              /\ client._client = None
              /\ \A i \in 1..Len(client.handles) : client.handles[i] = "closed"
              /\ boot.exit = Some("1")

\* C20 witness: the health check failed, stop() closed the handle the check
\* had opened and the process exited.
C20_Witness ==
    /\ HealthFailed
    /\ boot.pc = "exited"
    /\ client.handles = <<"closed">>
    /\ Len(client.uses) = 2
    /\ client.uses[1].op = "healthCheck"
    /\ client.uses[2] = [op |-> "close", handle |-> 1, state |-> "open"]

\* the positions in the calls made on the client that are a close(), and
\* those that are an operation
CloseCalls == {i \in 1..Len(client.uses) : client.uses[i].op = "close"}
OperationCalls == {i \in 1..Len(client.uses) : client.uses[i].op # "close"}

\* C19: in any sequence of operations and close() calls on the client, every
\* operation sends its request on a handle that is open; an operation after
\* a close() uses a handle newer than the one that close() dealt with and than
\* any used before it; a close() closes the handle held, once, and a close()
\* with no handle held closes and opens nothing; after a close() no handle is
\* held and none is open.
C19_CloseThenFreshHandle ==
    LET u == client.uses
    IN  /\ \A j \in OperationCalls : u[j].state = "open"
        /\ \A i \in CloseCalls, j \in OperationCalls :
              i < j => /\ u[j].handle > u[i].handle
                       /\ \A k \in OperationCalls : k < i => u[j].handle > u[k].handle
        /\ \A i \in CloseCalls : u[i].handle > 0 => u[i].state = "open"
        /\ Cardinality({h \in 1..Len(client.handles) : client.handles[h] = "closed"})
              = Cardinality({i \in CloseCalls : u[i].handle > 0})
        /\ Len(client.handles) = Cardinality({u[j].handle : j \in OperationCalls})
        /\ (u # <<>> /\ Len(u) \in CloseCalls) =>
              /\ client._client = None
              /\ \A h \in 1..Len(client.handles) : client.handles[h] = "closed"

\* C19 witness: an operation, a close() that closes its handle, a second
\* close() that finds none, and an operation that runs on a second handle.
C19_Witness ==
    /\ Len(client.uses) = 4
    /\ client.uses[1].op = "listSessions" /\ client.uses[1].handle = 1
    /\ client.uses[2] = [op |-> "close", handle |-> 1, state |-> "open"]
    /\ client.uses[3] = [op |-> "close", handle |-> 0, state |-> "none"]
    /\ client.uses[4] = [op |-> "listSessions", handle |-> 2, state |-> "open"]
    /\ client.handles = <<"closed", "open">>

\* C21: get_or_create_session never raises the failure of the getSession that
\* verifies the binding; when it raises, its last call is a createSession that
\* raised, the exception is that call's, and the binding is empty.  A build or
\* plan command whose createSession raised does not raise: it returns a result
\* with success false and the error text, with the binding empty.
C21_StaleBindingInvisible ==
    \A t \in Serial :
        LET tk == handler[t]
            n == Len(tk.calls)
        IN  /\ tk.kind \in {"get_or_create", "execute"} =>
                  tk.exc # Some(ErrText("getSession"))
            /\ (tk.kind = "get_or_create" /\ tk.pc = "raised") =>
                  /\ n >= 1
                  /\ tk.calls[n].op = "createSession"
                  /\ tk.calls[n].ret = "raised"
                  /\ tk.exc = Some(ErrText("createSession"))
                  /\ active_session = None
            /\ (tk.kind = "get_or_create" /\ n >= 1 /\ tk.calls[1].op = "getSession"
                   /\ tk.calls[1].ret = "raised") =>
                  /\ n = 2
                  /\ tk.calls[2].op = "createSession"
                  /\ tk.calls[2].ret = "ok" => tk.pc = "done" /\ tk.ret = active_session
            /\ (tk.kind = "execute" /\ tk.cmd \in {Some(BUILD), Some(PLAN)} /\ n >= 1
                   /\ tk.calls[n].op = "createSession" /\ tk.calls[n].ret = "raised") =>
                  /\ tk.pc = "done"
                  /\ tk.result # None
                  /\ ~tk.result[1].success
                  /\ Contains(tk.result[1].message, ErrText("createSession"))
                  /\ active_session = None

\* C21 witness: a build command found its binding stale, the verification
\* raised, createSession raised too, and the command returned a failed result.
C21_Witness ==
    \E t \in Serial :
        /\ handler[t].kind = "execute"
        /\ handler[t].cmd = Some(BUILD)
        /\ handler[t].pre_active # None
        /\ OpsOf(handler[t].calls) = <<"getSession", "createSession">>
        /\ handler[t].calls[1].ret = "raised"
        /\ handler[t].calls[2].ret = "raised"
        /\ handler[t].pc = "done"
        /\ ~handler[t].result[1].success

\* C22: every request of sendMessage and executeCommand is sent with the
\* timeout of 300 seconds, and every request of any other operation,
\* sendMessageAsync (the one build and plan send) among them, with the 30
\* seconds the client was built with.
C22_OnlyTurnSubmissionsWaitLong ==
    /\ \A i \in 1..Len(client.requests) :
          LET r == client.requests[i]
          IN  /\ r.op \in {"sendMessage", "executeCommand"} => r.timeout = 300
              /\ r.op \notin {"sendMessage", "executeCommand"} => r.timeout = 30
    /\ \A c \in {BUILD, PLAN} :
          /\ SendRequest([IdleTask EXCEPT !.cmd = Some(c)],
                         [id |-> SessionId(1), title |-> SESSION_TITLE]).op
                = "sendMessageAsync"

\* C22 witness: a sendMessageAsync was sent with 30 seconds and then a
\* sendMessage with 300.
C22_Witness ==
    /\ Len(client.requests) = 2
    /\ client.requests[1] = [op |-> "sendMessageAsync", timeout |-> 30]
    /\ client.requests[2] = [op |-> "sendMessage", timeout |-> 300]

\* the positions of text m that hold one of the units in us, in their order
PositionsFrom(m, us, i) ==
    LET P == {p \in i..Len(m) : m[p] \in us}
    IN  [j \in 1..Cardinality(P) |->
            CHOOSE p \in P : Cardinality({q \in P : q < p}) = j - 1]

Glyphs == {"idle-glyph", "running-glyph", "waiting-glyph", "unknown-glyph"}

\* the text from position p of m up to the end of its line
LineAt(m, p) ==
    LET ends == {q \in p..Len(m) : m[q] = "\n"}
    IN  SubSeq(m, p, IF ends = {} THEN Len(m)
                     ELSE (CHOOSE q \in ends : \A r \in ends : q <= r) - 1)

\* C23: the status command that was answered with a status map returns a
\* success; for an empty map its message says there are no active sessions;
\* otherwise the message has, after its heading, one line per entry of the
\* map, in the map's order, made of the glyph of the entry's status (the
\* fallback glyph when the status is not idle, running or waiting), at most
\* the first 8 characters of the entry's id, the status, and the agent in
\* parentheses exactly when the entry has one.
C23_StatusLines ==
    \A t \in Serial :
        LET tk == handler[t]
        IN  (/\ tk.kind = "execute" /\ tk.cmd = Some(STATUS) /\ tk.pc = "done"
             /\ tk.calls[Len(tk.calls)].ret = "ok") =>
               LET st == tk.statuses[1]
                   m == tk.result[1].message
                   at == PositionsFrom(m, Glyphs, 1)
               IN  /\ tk.result[1].success
                   /\ st = <<>> => m = <<"No active sessions.">>
                   /\ st # <<>> =>
                         /\ Len(at) = Len(st)
                         /\ Len(PositionsFrom(m, {"\n"}, 1)) = Len(st)
                         /\ \A i \in 1..Len(st) :
                               LET id8 == SubSeq(st[i].id, 1, Min(8, Len(st[i].id)))
                                   g == CASE st[i].status = "idle" -> "idle-glyph"
                                          [] st[i].status = "running" -> "running-glyph"
                                          [] st[i].status = "waiting" -> "waiting-glyph"
                                          [] OTHER -> "unknown-glyph"
                               IN  LineAt(m, at[i]) =
                                      <<g, " ">> \o id8 \o <<"... - ", st[i].status>>
                                         \o (IF st[i].agent = "" THEN <<>>
                                             ELSE <<" (", st[i].agent, ")">>)

\* C23 witness: the status command has rendered a map whose first entry has a
\* status without a glyph of its own, a long id and no agent, and whose second
\* has an agent.
C23_Witness ==
    \E t \in Serial :
        /\ handler[t].kind = "execute"
        /\ handler[t].cmd = Some(STATUS)
        /\ handler[t].pc = "done"
        /\ handler[t].statuses # None
        /\ Len(handler[t].statuses[1]) = 2
        /\ handler[t].statuses[1][1].status = "error"
        /\ handler[t].statuses[1][1].agent = ""
        /\ Len(handler[t].statuses[1][1].id) > 8
        /\ handler[t].statuses[1][2].agent # ""
        /\ Contains(handler[t].result[1].message, <<"unknown-glyph">>)

\* C24: the sessions command that was answered with the server's list of n
\* sessions returns a success; for an empty list its message says that no
\* sessions were found; otherwise the message has one bullet line for each of
\* the first min(n, 10) sessions, in the server's order, and no other, each
\* showing the first 8 characters of the session's id; and it ends with a
\* suffix telling that n - 10 more exist exactly when n > 10.
C24_FirstTenSessions ==
    \A t \in Serial :
        LET tk == handler[t]
        IN  (/\ tk.kind = "execute" /\ tk.cmd = Some(SESSIONS) /\ tk.pc = "done"
             /\ tk.calls[Len(tk.calls)].ret = "ok") =>
               LET n == Len(sessions)
                   k == IF n < 10 THEN n ELSE 10
                   m == tk.result[1].message
                   at == PositionsFrom(m, {"* "}, 1)
                   more == PositionsFrom(m, {" more"}, 1)
               IN  /\ tk.result[1].success
                   /\ n = 0 => m = <<"No sessions found.">>
                   /\ n > 0 =>
                         /\ Len(at) = k
                         /\ \A i \in 1..k :
                               /\ SubSeq(m, at[i] + 1, at[i] + 8)
                                     = SubSeq(sessions[i].id, 1, 8)
                               /\ LineAt(m, at[i]) =
                                     <<"* ">> \o SubSeq(sessions[i].id, 1, 8)
                                        \o <<"... - ">>
                                        \o (IF sessions[i].title = <<>>
                                            THEN <<"Untitled">> ELSE sessions[i].title)
                         /\ n <= 10 => more = <<>>
                         /\ n > 10 =>
                               /\ more = <<Len(m)>>
                               /\ IsPrefix(<<"\n... and ">>, LineAt(m, at[k] +
                                               Len(LineAt(m, at[k])) + 1))
                               /\ SubSeq(m, Len(LineAt(m, at[k])) + at[k] + 2, Len(m) - 1)
                                     = NumText(n - 10)

\* C24 witness: the sessions command has rendered a list of 12 sessions: ten
\* lines and a suffix for the 2 left out.
C24_Witness ==
    \E t \in Serial :
        /\ handler[t].kind = "execute"
        /\ handler[t].cmd = Some(SESSIONS)
        /\ handler[t].pc = "done"
        /\ handler[t].calls[Len(handler[t].calls)].ret = "ok"
        /\ Len(sessions) = 12
        /\ Contains(handler[t].result[1].message, <<"\n... and ", "2", " more">>)

\* the task's create_session has returned a session
CreatedDirect(tk) == tk.kind = "create_session" /\ tk.ret # None

\* C25 as stated: the session create_session(title=T) returns has the title T,
\* whatever T is, and a delete_session of its id that returns, returns true.
C25_CreatedTitleIsTheTitleGiven ==
    \A t \in Serial :
        CreatedDirect(handler[t]) =>
           /\ handler[t].ret[1].title = handler[t].title
           /\ handler[t].pc = "done" => handler[t].deleted = Some(TRUE)

\* C25 amended: the session create_session(title=T) returns has the title T
\* when T is a non-empty string; a delete_session of its id that returns,
\* returns true, and the server no longer holds the session then.
C25_NonEmptyTitleIsKept ==
    \A t \in Serial :
        CreatedDirect(handler[t]) =>
           /\ (handler[t].title # None /\ handler[t].title[1] # <<>>) =>
                 handler[t].ret[1].title = handler[t].title
           /\ handler[t].pc = "done" =>
                 /\ handler[t].deleted = Some(TRUE)
                 /\ ~HasSession(sessions, handler[t].ret[1].id)
           /\ handler[t].pc = "raised" =>
                 /\ handler[t].deleted = None
                 /\ handler[t].exc = Some(ErrText("deleteSession"))

\* C25 witness: a session created with the title "Test Session" came back
\* with that title and its deletion returned true.
C25_Witness ==
    \E t \in Serial :
        /\ handler[t].kind = "create_session"
        /\ handler[t].title = Some(<<"Test Session">>)
        /\ handler[t].ret # None
        /\ handler[t].ret[1].title = Some(<<"Test Session">>)
        /\ handler[t].pc = "done"
        /\ handler[t].deleted = Some(TRUE)

\* body without the prefix
AfterPrefix(body) == SubSeq(body, Len(config.prefix) + 1, Len(body))

\* the position of the first whitespace of s, Len(s) + 1 when s has none
FirstWhite(s) ==
    LET W == {i \in 1..Len(s) : s[i] \in {" ", "\t", "\n"}}
    IN  IF W = {} THEN Len(s) + 1 ELSE CHOOSE i \in W : \A j \in W : i <= j

\* C26: for every handled body that starts with the prefix, the dispatcher
\* goes on to the lookup with, as command token, the text between the prefix
\* and the first whitespace in lower case, and, as remainder, everything after
\* that whitespace; also when whitespace directly follows the prefix (the token
\* is empty then) and when the body is the prefix alone.
C26_TokenAndRemainder ==
    \A t \in Serial :
        LET tk == handler[t]
        IN  (tk.kind = "message" /\ Authorized(tk)
             /\ IsPrefix(config.prefix, tk.event.body)) =>
               LET rest == AfterPrefix(tk.event.body)
                   k == FirstWhite(rest)
               IN  /\ tk.stop \in {"unknown", "resolved"}
                   /\ SameLetters(tk.cmd_name, SubSeq(rest, 1, k - 1))
                   /\ \A i \in 1..Len(tk.cmd_name) : tk.cmd_name[i] \notin
                         {"A","B","C","D","E","F","G","H","I","J","K","L","M",
                          "N","O","P","Q","R","S","T","U","V","W","X","Y","Z"}
                   /\ tk.args = SubSeq(rest, k + 1, Len(rest))

\* the message of task tk is one a guard before the lookup turns away: it has
\* no sender or an empty one, an empty body, the bot's own identity as sender
\* (as the match facility sees it, or equal to the configured username when
\* the facility raises), a sender outside a non-empty allow-list, or a body
\* that does not start with the prefix
TurnedAway(tk) ==
    LET e == tk.event
    IN  \/ e.sender = None
        \/ e.sender[1] = ""
        \/ e.body = <<>>
        \/ ~e.match_raises /\ e.sender[1] = OwnUserId
        \/ e.match_raises /\ e.sender[1] = config.username
        \/ /\ config.allowed_users # <<>>
           /\ \A i \in 1..Len(config.allowed_users) :
                 config.allowed_users[i] # e.sender[1]
        \/ ~IsPrefix(config.prefix, e.body)

\* C27: the handling of a message that a guard before the lookup turns away
\* ends at once: no call to the chat transport (no send, no typing toggle),
\* no call to the control-plane, no command looked up or executed, and the
\* binding and the model preference as they were.
C27_GuardsChangeNothing ==
    \A t \in Serial :
        LET tk == handler[t]
        IN  (tk.kind = "message" /\ TurnedAway(tk)) =>
               /\ tk.pc = "done"
               /\ tk.calls = <<>>
               /\ tk.cmd = None
               /\ tk.result = None
               /\ tk.exc = None
               /\ active_session = tk.pre_active
               /\ current_model = tk.pre_model

\* C27 witness: the match facility raised for a command whose sender is the
\* configured username, and the handling ended, under a configuration that
\* would have executed the command for anyone else.
C27_Witness ==
    \E t \in Serial :
        /\ handler[t].kind = "message"
        /\ handler[t].event.match_raises
        /\ handler[t].event.sender = Some(config.username)
        /\ handler[t].event.body = Slash \o <<"h">>
        /\ config.allowed_users = <<>>
        /\ handler[t].pc = "done"

\* the last call of task tk
LastCall(tk) == tk.calls[Len(tk.calls)]

C29_ClearedOnlyWhileStale ==
    [][ \A t \in Tasks :
          (/\ handler[t].pc = "get_session"
           /\ handler'[t].pc = "create_session"
           /\ active_session # None
           /\ active_session' = None) =>
             active_session[1].id = LastCall(handler[t]).sid
      ]_vars

\* the command before the current one created a session, its sendMessageAsync
\* to it raised, and it returned a failed result
SendFailedBefore ==
    /\ hist # None
    /\ Len(hist[1].calls) >= 2
    /\ LET n == Len(hist[1].calls)
       IN  /\ hist[1].calls[n - 1].op = "createSession"
           /\ hist[1].calls[n - 1].ret = "ok"
           /\ hist[1].calls[n].op = "sendMessageAsync"
           /\ hist[1].calls[n].ret = "raised"

\* the id of the session the command before created
CreatedBefore == hist[1].calls[Len(hist[1].calls)].sid

\* C30 as stated: after a build or plan command that created a session and
\* whose sendMessageAsync failed, the command returned a failed result and the
\* next build or plan command verifies that session and issues no
\* createSession.
C30_NextCommandNeverCreates ==
    \A t \in Serial :
        (SendFailedBefore /\ handler[t].kind = "execute") =>
           /\ ~hist[1].ret[1].success
           /\ handler[t].calls[1].op = "getSession"
           /\ handler[t].calls[1].sid = CreatedBefore
           /\ \A i \in 1..Len(handler[t].calls) : handler[t].calls[i].op # "createSession"

\* C30 amended: after such a command the result is a failure and the binding
\* holds the session it created (idle, and at the entry of the next command);
\* the next build or plan command first verifies that session and, when the
\* verification returns, issues no createSession, sends its task to that
\* session and leaves it bound; only when the verification raises does it
\* create another.
C30_BindingKeptAfterSendFailure ==
    \A t \in Serial :
        LET tk == handler[t]
        IN  SendFailedBefore =>
               /\ hist[1].ret # None /\ ~hist[1].ret[1].success
               /\ tk.pc = "idle" =>
                     active_session # None /\ active_session[1].id = CreatedBefore
               /\ tk.kind = "execute" =>
                     /\ tk.pre_active # None
                     /\ tk.pre_active[1].id = CreatedBefore
                     /\ tk.calls[1].op = "getSession"
                     /\ tk.calls[1].sid = CreatedBefore
                     /\ tk.calls[1].ret = "ok" =>
                           /\ Len(tk.calls) = 2
                           /\ tk.calls[2].op = "sendMessageAsync"
                           /\ tk.calls[2].sid = CreatedBefore
                           /\ active_session # None
                           /\ active_session[1].id = CreatedBefore
                     /\ (\E i \in 1..Len(tk.calls) : tk.calls[i].op = "createSession")
                           => tk.calls[1].ret = "raised"

\* C30 witness: the command after a failed send has verified the session the
\* failed command created and has started its task in it.
C30_Witness ==
    \E t \in Serial :
        /\ SendFailedBefore
        /\ handler[t].kind = "execute"
        /\ handler[t].pc = "done"
        /\ handler[t].result[1].success
        /\ OpsOf(handler[t].calls) = <<"getSession", "sendMessageAsync">>
        /\ handler[t].calls[2].sid = CreatedBefore


\* C31: whenever the event stream yields a record to the monitor, the monitor
\* at most logs: the handlers (and with them every send to the chat
\* transport), the control-plane calls issued, the session binding, the
\* current-model preference and the position of the process are unchanged,
\* and the monitor is still running, ready for the next record.
C31_MonitorOnlyLogsAndGoesOn ==
    [][ Len(client'.yielded) > Len(client.yielded) =>
           /\ handler' = handler
           /\ client'.uses = client.uses
           /\ active_session' = active_session
           /\ current_model' = current_model
           /\ boot'.pc = boot.pc
           /\ boot'.event_task = "running"
           /\ client'.gen = "open" ]_vars

\* what the monitor keeps for every record: it touches nothing but its log
\* and its own task
MonitorChangesOnlyItsLog ==
    [][ Len(client'.yielded) > Len(client.yielded) =>
           /\ handler' = handler
           /\ client'.uses = client.uses
           /\ active_session' = active_session
           /\ current_model' = current_model
           /\ boot'.pc = boot.pc ]_vars


\* the process is in stop(), or past it
InStop(b) == b.pc \in {"stop_wait", "closing", "exited"}

\* the handles the event stream was opened on
StreamHandles ==
    {client.uses[i].handle : i \in {j \in 1..Len(client.uses) :
                                        client.uses[j].op = "subscribeEvents"}}

\* C32: stop() awaits the cancelled monitor before it closes the client: while
\* stop() waits the monitor is being cancelled; the client is closed, and the
\* process exits, only with the monitor over or never created and the stream
\* no longer open; a line is read from the stream only on a handle that is
\* open and before any close(); and stop() adds no error and no log entry of
\* its own, going straight to the close when the monitor was never created,
\* never ran, or had already ended.
C32_StopAwaitsMonitorBeforeClose ==
    [][ /\ boot'.pc = "stop_wait" => boot'.event_task = "cancelling"
        /\ boot'.pc \in {"closing", "exited"} =>
              /\ MonitorOver(boot') \/ boot'.event_task = "none"
              /\ client'.gen # "open"
        /\ Len(client'.uses) > Len(client.uses)
           /\ client'.uses[Len(client'.uses)].op = "close" =>
              /\ MonitorOver(boot) \/ boot.event_task = "none"
              /\ client.gen # "open"
        /\ client'.lines # client.lines =>
              /\ CloseCalls = {}
              /\ \A h \in StreamHandles : client.handles[h] = "open"
              /\ ~InStop(boot)
        /\ InStop(boot) => boot'.exc = boot.exc /\ boot'.log = boot.log
        /\ ~InStop(boot) /\ InStop(boot') =>
              /\ boot'.exc # None
              /\ boot'.exc[1] \in SyncErrors \cup {ErrText("healthCheck"), ErrText("login")}
                     \cup {handler["main"].exc[i] : i \in 1..Len(handler["main"].exc)}
              /\ boot.event_task \in {"none", "pending", "done"} =>
                    /\ boot'.pc \in {"closing", "exited"}
                    /\ boot'.event_task = IF boot.event_task = "pending"
                                          THEN "cancelled" ELSE boot.event_task
              /\ boot.event_task = "running" => boot'.pc = "stop_wait" ]_vars

\* C32 witness: stop() cancelled a monitor that had read from the stream,
\* waited for it, and then closed the handle the stream had been opened on,
\* which was still open.
C32_Witness ==
    /\ boot.pc = "exited"
    /\ boot.event_task = "done"
    /\ client.lines # <<>>
    /\ LOG_MONITOR \notin {boot.log[i] : i \in 1..Len(boot.log)}
    /\ CloseCalls # {}
    /\ \A i \in CloseCalls : /\ client.uses[i].handle \in StreamHandles
                             /\ client.uses[i].state = "open"

\* C32 witness of a stop() with a monitor that had already ended on its own
C32_WitnessEnded ==
    /\ boot.pc = "exited"
    /\ boot.event_task = "done"
    /\ LOG_MONITOR \in {boot.log[i] : i \in 1..Len(boot.log)}
    /\ CloseCalls # {}

\* C32 witness of a stop() with a monitor that never ran
C32_WitnessNeverRan ==
    /\ boot.pc = "exited"
    /\ boot.event_task = "cancelled"
    /\ client.gen = "none"


\* the calls task tk has made on the chat transport, and whether one raised
Chat(tk) == CallsOf(tk, ChatOps)
ChatOk(tk) == \A i \in 1..Len(Chat(tk)) : Chat(tk)[i].ret # "raised"

\* the parts of a result task tk has sent
Sent(tk) == CallsOf(tk, {"send_markdown_message"})

\* what holds of the handling of a resolved command at every moment: every
\* chat call goes to the room the message came from; and as long as no chat
\* call has raised, no error message is sent and nothing is raised, the parts
\* sent are the leading parts of the one result of the command, and when
\* handle_message has returned they are all its parts, at least one, and
\* together its message
OneResultToItsRoom(t) ==
    LET tk == handler[t]
    IN  tk.kind = "message" /\ tk.stop = "resolved" =>
           /\ \A i \in 1..Len(Chat(tk)) : Chat(tk)[i].room = RoomOf(t)
           /\ ChatOk(tk) =>
                 /\ CallsOf(tk, {"send_text_message"}) = <<>>
                 /\ tk.pc \notin {"raised", "error_reply"}
                 /\ Sent(tk) # <<>> =>
                       /\ tk.result # None
                       /\ IsPrefix(Concat(TextsOf(Sent(tk))), tk.result[1].message)
                 /\ tk.pc \in {"done", "typing_off"} =>
                       /\ tk.result # None
                       /\ Len(Sent(tk)) >= 1
                       /\ Concat(TextsOf(Sent(tk))) = tk.result[1].message
                       /\ tk.exc = None

\* C33: with commands from two rooms handled at once, every chat call of a
\* handler goes to the room its message came from; while the chat calls
\* succeed the handler sends the one result of its command, in one or more
\* parts, and no error message; and every handling that has begun comes to
\* its end, whether the control-plane calls return or fail.
C33_OneResultToTheOriginatingRoom ==
    /\ [](OneResultToItsRoom("main") /\ OneResultToItsRoom("other"))
    /\ (handler["main"].kind = "message")
          ~> (handler["main"].pc \in {"done", "raised"})
    /\ (handler["other"].kind = "message")
          ~> (handler["other"].pc \in {"done", "raised"})

\* C33 witness: both rooms have had the result of their command, the build
\* command's in two parts, and each part went to the room of its command.
C33_Witness ==
    /\ handler["main"].pc = "done" /\ handler["other"].pc = "done"
    /\ ChatOk(handler["main"]) /\ ChatOk(handler["other"])
    /\ handler["main"].cmd = Some(BUILD) /\ handler["other"].cmd = Some(AGENTS)
    /\ handler["main"].result[1].success
    /\ Len(Sent(handler["main"])) = 2
    /\ Sent(handler["main"])[1].room = "!shell:hs"
    /\ Sent(handler["other"]) # <<>>
    /\ Sent(handler["other"])[1].room = "!other:hs"


\* both tasks are suspended on the request of their first call, made while
\* the other's was in progress, on a client that had no handle
BothInFirstCall ==
    /\ \A t \in Tasks : handler[t].pc = "request" /\ Len(handler[t].calls) = 1
    /\ Len(client.uses) = 2

\* every operation so far was sent on the handle the client holds
AllOnTheHandleHeld ==
    \A i \in 1..Len(client.uses) :
        /\ Some(client.uses[i].handle) = client._client
        /\ client.uses[i].state = "open"

\* C34 as stated: two tasks in their first calls at the same time, on a
\* client that had no handle, have each created a handle, so that two exist,
\* and every operation after them is sent on the one handle the client holds.
C34_TwoHandlesFromFirstUse ==
    /\ BothInFirstCall =>
          /\ Len(client.handles) = 2
          /\ handler["main"].ret # handler["other"].ret
    /\ \A i \in 3..Len(client.uses) :
          /\ Some(client.uses[i].handle) = client._client
          /\ client.uses[i].state = "open"

\* C34 amended: however the calls of two tasks overlap, first calls on a
\* client without a handle included, the client creates one handle: the task
\* that runs second finds the handle the first created; every operation is
\* sent on that handle, which is open and is the one the client holds, every
\* task in a request holds it, and no handle is wasted.
C34_OneHandleFromFirstUse ==
    /\ client.uses # <<>> =>
          /\ client.handles = <<"open">>
          /\ client._client = Some(1)
    /\ client.uses = <<>> => client.handles = <<>> /\ client._client = None
    /\ AllOnTheHandleHeld
    /\ \A t \in Tasks : handler[t].pc = "request" => handler[t].ret = client._client

\* C34 witness: both tasks are in their first call at once and share the one
\* handle there is.
C34_Witness ==
    /\ BothInFirstCall
    /\ handler["main"].ret = Some(1)
    /\ handler["other"].ret = Some(1)
    /\ Len(client.handles) = 1

=============================================================================
